---- MODULE Spec2Model ----
(***************************************************************************)
(* The Convex data layer of doc-processor (the workflows,                  *)
(* workflow_executions and documents tables and the query / mutation       *)
(* handlers of web/convex/workflows.ts and web/convex/documents.ts), the   *)
(* workflow builder page that edits, saves and runs workflows, and the     *)
(* Next.js route of a single document.                                     *)
(*                                                                         *)
(* An optional value (v.optional(...), a field that may be missing, the    *)
(* identity of a caller that may be unauthenticated) is a sequence of      *)
(* length 0 (undefined) or 1 (the value).                                  *)
(***************************************************************************)
EXTENDS Integers, Sequences, FiniteSets, TLC

VARIABLES workflows, wfIssued, executions, exIssued, documents, docIssued,
          clock, result

\* the workflow builder page (app/workflows/page.tsx with useWorkflows)
VARIABLES nodes, edges, currentWorkflow, loading, isExecuting, pendingSave,
          pendingDelete, picker, pendingRun

\* the upload page's Create Workflow; the reply of a Next.js route
VARIABLES uploadSave, response

\* the execution engine behind /api/workflows/{id}/execute: its run, the
\* executors it invoked, and what executeWorkflow returned to the page
VARIABLES run, invoked, returned

\* useWorkflows' error state
VARIABLES error

\* document processing: the upload page's request on its way to a route of
\* /api/process, the request a route is working on after documents.create,
\* and the calls the routes made to the backend
VARIABLES request, job, backendCalls

\* cleanProcessingResult's argument and what it returned
VARIABLES cleanIn, cleanOut

builder == <<nodes, edges, currentWorkflow, loading, isExecuting, pendingSave,
             pendingDelete, picker, pendingRun>>

engine == <<run, invoked, returned>>

pipeline == <<request, job, backendCalls, cleanIn, cleanOut>>

\* everything outside the Convex store
front == <<builder, uploadSave, response, engine, error, pipeline>>

vars == <<workflows, wfIssued, executions, exIssued, documents, docIssued,
          clock, result, front>>

----------------------------------------------------------------------------
(* Bounds of the model. *)

MaxWorkflows == 1

MaxExecutions == 1

MaxDocuments == 1

MaxTime == 1

MaxRuns == 2

MaxNodes == 2

MaxSize == 4

----------------------------------------------------------------------------
(* Optional values and callers. *)

None == <<>>

Some(v) == <<v>>

IsSome(o) == Len(o) = 1

Users == {"alice", "bob"}

\* ctx.auth.getUserIdentity(): null, or an identity whose subject is a user id
Identities == {None} \cup {Some(u) : u \in Users}

WorkflowIds == 1..MaxWorkflows

ExecutionIds == 1..MaxExecutions

DocumentIds == 1..MaxDocuments

\* ctx.db.patch leaves a field alone when the patch object has no such key
PatchField(old, arg) == IF IsSome(arg) THEN arg[1] ELSE old

\* the same for a field that is itself optional in the schema
PatchOptional(old, arg) == IF IsSome(arg) THEN arg ELSE old

\* ids in descending creation order: query(...).order("desc")
RECURSIVE OrderDesc(_)
OrderDesc(S) ==
    IF S = {} THEN <<>>
    ELSE LET m == CHOOSE x \in S : \A y \in S : y <= x
         IN  <<m>> \o OrderDesc(S \ {m})

\* what a handler hands back: a thrown Error's message, or "ok" and the value
Reply(op, caller, id, out, ret) ==
    result' = [op |-> op, caller |-> caller, id |-> id, out |-> out, ret |-> ret]

\* the ownership test with the ownerless case lost: a row without userId is
\* taken for somebody else's
OwnedByOtherNoLegacy(owner, userId) == ~IsSome(owner) \/ owner[1] # userId

\* the ownership test every guarded handler of workflows.ts repeats
OwnedByOther(owner, userId) == IsSome(owner) /\ owner[1] # userId

----------------------------------------------------------------------------
(* Workflow definitions (definition: v.any()): nodes and edges. *)

\* the builder's palette (two of its five node types)
NodeTypes == {"document-input", "ocr-processor"}

\* `${type}-${Date.now()}`: the type and the millisecond of the addition
NodeId(type, ms) == <<type, ms>>

\* a node as it is stored: data holds a label and a config and no callback
StoredNode(type, ms) ==
    [id |-> NodeId(type, ms), type |-> type, onConfigUpdate |-> FALSE]

\* the ids of the definition's nodes
NodeIds(definition) ==
    {definition.nodes[i].id : i \in 1..Len(definition.nodes)}

\* nodes added before the run of the model began
GraphChain ==
    [nodes |-> <<StoredNode("document-input", -1), StoredNode("ocr-processor", -1)>>,
     edges |-> {<<NodeId("document-input", -1), NodeId("ocr-processor", -1)>>}]

GraphSingle == [nodes |-> <<StoredNode("document-input", -1)>>, edges |-> {}]

\* a definition whose edge leads to a node that is not among its nodes
GraphDangling ==
    [nodes |-> <<StoredNode("document-input", -1)>>,
     edges |-> {<<NodeId("document-input", -1), NodeId("ocr-processor", -1)>>}]

\* a row written by the create mutation that had no userId
LegacyWorkflow ==
    [name |-> "a", description |-> None, definition |-> GraphChain,
     is_active |-> TRUE, created_at |-> 0, updated_at |-> 0, userId |-> None]

\* a row written by the createExecution mutation that had no userId
LegacyExecution ==
    [workflow_id |-> 1, status |-> "pending", input_data |-> None,
     output_data |-> None, error_message |-> None, started_at |-> 0,
     completed_at |-> None, userId |-> None]

----------------------------------------------------------------------------
(* workflows.ts: workflow definitions *)

WorkflowsList(identity, is_active) ==
    LET match(id) ==
            /\ IsSome(identity) => workflows[id].userId = identity
            /\ IsSome(is_active) => workflows[id].is_active = is_active[1]
        ids == {id \in DOMAIN workflows : match(id)}
    IN  /\ Reply("workflows.list", identity, 0, "ok", OrderDesc(ids))
        /\ UNCHANGED <<workflows, wfIssued, executions, exIssued, documents,
                       docIssued, clock>>

WorkflowsGet(identity, id) ==
    /\ IF ~IsSome(identity)
       THEN Reply("workflows.get", identity, id, "Not authenticated", None)
       ELSE IF id \notin DOMAIN workflows
       THEN Reply("workflows.get", identity, id, "Workflow not found", None)
       ELSE IF OwnedByOther(workflows[id].userId, identity[1])
       THEN Reply("workflows.get", identity, id, "Access denied", None)
       ELSE Reply("workflows.get", identity, id, "ok", Some(workflows[id]))
    /\ UNCHANGED <<workflows, wfIssued, executions, exIssued, documents,
                   docIssued, clock>>

WorkflowRow(name, description, definition, is_active, now, userId) ==
    [name |-> name, description |-> description, definition |-> definition,
     is_active |-> IF IsSome(is_active) THEN is_active[1] ELSE TRUE,
     created_at |-> now, updated_at |-> now, userId |-> Some(userId)]

WorkflowsCreate(identity, name, description, definition, is_active) ==
    IF ~IsSome(identity)
    THEN /\ Reply("workflows.create", identity, 0, "Not authenticated", None)
         /\ UNCHANGED <<workflows, wfIssued, executions, exIssued, documents,
                        docIssued, clock>>
    ELSE /\ wfIssued < MaxWorkflows
         /\ LET id == wfIssued + 1
            IN  /\ workflows' = [i \in DOMAIN workflows \cup {id} |->
                        IF i = id
                        THEN WorkflowRow(name, description, definition,
                                         is_active, clock, identity[1])
                        ELSE workflows[i]]
                /\ wfIssued' = id
                /\ Reply("workflows.create", identity, id, "ok", Some(id))
         /\ UNCHANGED <<executions, exIssued, documents, docIssued, clock>>

\* the patch built from the arguments as they come: an absent description
\* is written as undefined
WorkflowPatchAllKeys(row, name, description, definition, is_active, now) ==
    [row EXCEPT !.updated_at = now,
                !.name = PatchField(@, name),
                !.description = description,
                !.definition = PatchField(@, definition),
                !.is_active = PatchField(@, is_active)]

WorkflowPatch(row, name, description, definition, is_active, now) ==
    [row EXCEPT !.updated_at = now,
                !.name = PatchField(@, name),
                !.description = PatchOptional(@, description),
                !.definition = PatchField(@, definition),
                !.is_active = PatchField(@, is_active)]

WorkflowsUpdate(identity, id, name, description, definition, is_active) ==
    IF ~IsSome(identity)
    THEN /\ Reply("workflows.update", identity, id, "Not authenticated", None)
         /\ UNCHANGED <<workflows, wfIssued, executions, exIssued, documents,
                        docIssued, clock>>
    ELSE IF id \notin DOMAIN workflows
    THEN /\ Reply("workflows.update", identity, id, "Workflow not found", None)
         /\ UNCHANGED <<workflows, wfIssued, executions, exIssued, documents,
                        docIssued, clock>>
    ELSE IF OwnedByOther(workflows[id].userId, identity[1])
    THEN /\ Reply("workflows.update", identity, id, "Access denied", None)
         /\ UNCHANGED <<workflows, wfIssued, executions, exIssued, documents,
                        docIssued, clock>>
    ELSE /\ workflows' = [workflows EXCEPT ![id] =
                WorkflowPatch(@, name, description, definition, is_active, clock)]
         /\ Reply("workflows.update", identity, id, "ok", Some(id))
         /\ UNCHANGED <<wfIssued, executions, exIssued, documents, docIssued,
                        clock>>

WorkflowsRemove(identity, id) ==
    IF ~IsSome(identity)
    THEN /\ Reply("workflows.remove", identity, id, "Not authenticated", None)
         /\ UNCHANGED <<workflows, wfIssued, executions, exIssued, documents,
                        docIssued, clock>>
    ELSE IF id \notin DOMAIN workflows
    THEN /\ Reply("workflows.remove", identity, id, "Workflow not found", None)
         /\ UNCHANGED <<workflows, wfIssued, executions, exIssued, documents,
                        docIssued, clock>>
    ELSE IF OwnedByOther(workflows[id].userId, identity[1])
    THEN /\ Reply("workflows.remove", identity, id, "Access denied", None)
         /\ UNCHANGED <<workflows, wfIssued, executions, exIssued, documents,
                        docIssued, clock>>
    ELSE /\ workflows' = [i \in DOMAIN workflows \ {id} |-> workflows[i]]
         /\ Reply("workflows.remove", identity, id, "ok", None)
         /\ UNCHANGED <<wfIssued, executions, exIssued, documents, docIssued,
                        clock>>

----------------------------------------------------------------------------
(* workflows.ts: workflow executions *)

ExecutionStatuses == {"pending", "running", "completed", "failed"}

ListExecutions(identity, workflow_id, status) ==
    /\ IF ~IsSome(identity)
       THEN Reply("workflows.listExecutions", identity, 0, "Not authenticated", None)
       ELSE LET match(id) ==
                    /\ executions[id].userId = identity
                    /\ IsSome(workflow_id) => executions[id].workflow_id = workflow_id[1]
                    /\ IsSome(status) => executions[id].status = status[1]
                ids == {id \in DOMAIN executions : match(id)}
            IN  Reply("workflows.listExecutions", identity, 0, "ok", OrderDesc(ids))
    /\ UNCHANGED <<workflows, wfIssued, executions, exIssued, documents,
                   docIssued, clock>>

GetExecution(identity, id) ==
    /\ IF ~IsSome(identity)
       THEN Reply("workflows.getExecution", identity, id, "Not authenticated", None)
       ELSE IF id \notin DOMAIN executions
       THEN Reply("workflows.getExecution", identity, id,
                  "Workflow execution not found", None)
       ELSE IF OwnedByOther(executions[id].userId, identity[1])
       THEN Reply("workflows.getExecution", identity, id, "Access denied", None)
       ELSE Reply("workflows.getExecution", identity, id, "ok", Some(executions[id]))
    /\ UNCHANGED <<workflows, wfIssued, executions, exIssued, documents,
                   docIssued, clock>>

\* the inserted row with the wrong default: a run without a status argument
\* starts as running
ExecutionRowStarted(workflow_id, input_data, status, now, userId) ==
    [workflow_id |-> workflow_id,
     status |-> IF IsSome(status) THEN status[1] ELSE "running",
     input_data |-> input_data, output_data |-> None, error_message |-> None,
     started_at |-> now, completed_at |-> None, userId |-> Some(userId)]

\* the inserted row as createExecution wrote it before runs had owners
ExecutionRowOwnerless(workflow_id, input_data, status, now, userId) ==
    [workflow_id |-> workflow_id,
     status |-> IF IsSome(status) THEN status[1] ELSE "pending",
     input_data |-> input_data, output_data |-> None, error_message |-> None,
     started_at |-> now, completed_at |-> None, userId |-> None]

ExecutionRow(workflow_id, input_data, status, now, userId) ==
    [workflow_id |-> workflow_id,
     status |-> IF IsSome(status) THEN status[1] ELSE "pending",
     input_data |-> input_data, output_data |-> None, error_message |-> None,
     started_at |-> now, completed_at |-> None, userId |-> Some(userId)]

CreateExecution(identity, workflow_id, input_data, status) ==
    IF ~IsSome(identity)
    THEN /\ Reply("workflows.createExecution", identity, 0, "Not authenticated", None)
         /\ UNCHANGED <<workflows, wfIssued, executions, exIssued, documents,
                        docIssued, clock>>
    ELSE IF workflow_id \notin DOMAIN workflows
    THEN /\ Reply("workflows.createExecution", identity, 0, "Workflow not found", None)
         /\ UNCHANGED <<workflows, wfIssued, executions, exIssued, documents,
                        docIssued, clock>>
    ELSE IF OwnedByOther(workflows[workflow_id].userId, identity[1])
    THEN /\ Reply("workflows.createExecution", identity, 0, "Access denied", None)
         /\ UNCHANGED <<workflows, wfIssued, executions, exIssued, documents,
                        docIssued, clock>>
    ELSE /\ LET id == exIssued + 1
            IN  /\ executions' = [i \in DOMAIN executions \cup {id} |->
                        IF i = id
                        THEN ExecutionRow(workflow_id, input_data, status,
                                          clock, identity[1])
                        ELSE executions[i]]
                /\ exIssued' = id
                /\ Reply("workflows.createExecution", identity, id, "ok", Some(id))
         /\ UNCHANGED <<workflows, wfIssued, documents, docIssued, clock>>

ExecutionPatch(row, status, output_data, error_message, completed_at) ==
    [row EXCEPT !.status = PatchField(@, status),
                !.output_data = PatchOptional(@, output_data),
                !.error_message = PatchOptional(@, error_message),
                !.completed_at = PatchOptional(@, completed_at)]

\* the update applied to every run of the addressed run's workflow
UpdateExecutionAllRuns(identity, id, status, output_data, error_message, completed_at) ==
    IF ~IsSome(identity)
    THEN /\ Reply("workflows.updateExecution", identity, id, "Not authenticated", None)
         /\ UNCHANGED <<workflows, wfIssued, executions, exIssued, documents,
                        docIssued, clock>>
    ELSE IF id \notin DOMAIN executions
    THEN /\ Reply("workflows.updateExecution", identity, id,
                  "Workflow execution not found", None)
         /\ UNCHANGED <<workflows, wfIssued, executions, exIssued, documents,
                        docIssued, clock>>
    ELSE IF OwnedByOther(executions[id].userId, identity[1])
    THEN /\ Reply("workflows.updateExecution", identity, id, "Access denied", None)
         /\ UNCHANGED <<workflows, wfIssued, executions, exIssued, documents,
                        docIssued, clock>>
    ELSE /\ executions' = [i \in DOMAIN executions |->
                IF executions[i].workflow_id = executions[id].workflow_id
                THEN ExecutionPatch(executions[i], status, output_data,
                                    error_message, completed_at)
                ELSE executions[i]]
         /\ Reply("workflows.updateExecution", identity, id, "ok", Some(id))
         /\ UNCHANGED <<workflows, wfIssued, exIssued, documents, docIssued,
                        clock>>

UpdateExecution(identity, id, status, output_data, error_message, completed_at) ==
    IF ~IsSome(identity)
    THEN /\ Reply("workflows.updateExecution", identity, id, "Not authenticated", None)
         /\ UNCHANGED <<workflows, wfIssued, executions, exIssued, documents,
                        docIssued, clock>>
    ELSE IF id \notin DOMAIN executions
    THEN /\ Reply("workflows.updateExecution", identity, id,
                  "Workflow execution not found", None)
         /\ UNCHANGED <<workflows, wfIssued, executions, exIssued, documents,
                        docIssued, clock>>
    ELSE IF OwnedByOther(executions[id].userId, identity[1])
    THEN /\ Reply("workflows.updateExecution", identity, id, "Access denied", None)
         /\ UNCHANGED <<workflows, wfIssued, executions, exIssued, documents,
                        docIssued, clock>>
    ELSE /\ executions' = [executions EXCEPT ![id] =
                ExecutionPatch(@, status, output_data, error_message, completed_at)]
         /\ Reply("workflows.updateExecution", identity, id, "ok", Some(id))
         /\ UNCHANGED <<workflows, wfIssued, exIssued, documents, docIssued,
                        clock>>

----------------------------------------------------------------------------
(* documents.ts: document records *)

DocumentStatuses == {"processing", "processed", "failed"}

\* paginate({numItems: limit, cursor: null}).page: the first numItems rows
FirstPage(seq, numItems) ==
    IF Len(seq) <= numItems THEN seq ELSE SubSeq(seq, 1, numItems)

DefaultLimit == 50

DocumentsList(identity, limit, status_filter) ==
    LET match(id) ==
            /\ IsSome(identity) => documents[id].userId = identity
            /\ IsSome(status_filter) => documents[id].status = status_filter[1]
        ids == {id \in DOMAIN documents : match(id)}
        page == FirstPage(OrderDesc(ids),
                          IF IsSome(limit) THEN limit[1] ELSE DefaultLimit)
    IN  /\ Reply("documents.list", identity, 0, "ok", page)
        /\ UNCHANGED <<workflows, wfIssued, executions, exIssued, documents,
                       docIssued, clock>>

DocumentsGet(identity, id) ==
    /\ IF id \notin DOMAIN documents
       THEN Reply("documents.get", identity, id, "Document not found", None)
       ELSE IF IsSome(identity) /\ OwnedByOther(documents[id].userId, identity[1])
       THEN Reply("documents.get", identity, id, "Access denied", None)
       ELSE Reply("documents.get", identity, id, "ok", Some(documents[id]))
    /\ UNCHANGED <<workflows, wfIssued, executions, exIssued, documents,
                   docIssued, clock>>

\* args.userId || currentUserId
DocumentOwner(userId, identity) == IF IsSome(userId) THEN userId ELSE identity

DocumentRow(filename, file_size_mb, content_type, status, error_message, now, owner) ==
    [filename |-> filename, status |-> status, timestamp |-> now,
     file_size_mb |-> file_size_mb, content_type |-> content_type,
     processing_result |-> None, error_message |-> error_message,
     userId |-> owner]

DocumentsCreate(identity, filename, size, ctype, status, error_message, userId) ==
    /\ docIssued < MaxDocuments
    /\ LET id == docIssued + 1
       IN  /\ documents' = [i \in DOMAIN documents \cup {id} |->
                   IF i = id
                   THEN DocumentRow(filename, size, ctype, status,
                                    error_message, clock,
                                    DocumentOwner(userId, identity))
                   ELSE documents[i]]
           /\ docIssued' = id
           /\ Reply("documents.create", identity, id, "ok", Some(id))
    /\ UNCHANGED <<workflows, wfIssued, executions, exIssued, clock>>

\* !args.bypass_auth && userId && document.userId && document.userId !== userId
DocumentUpdateDenied(bypass_auth, identity, owner) ==
    /\ ~(IsSome(bypass_auth) /\ bypass_auth[1])
    /\ IsSome(identity)
    /\ OwnedByOther(owner, identity[1])

DocumentPatch(row, processing_result, status, error_message, now) ==
    [row EXCEPT !.timestamp = now,
                !.processing_result = PatchOptional(@, processing_result),
                !.status = PatchField(@, status),
                !.error_message = PatchOptional(@, error_message)]

DocumentsUpdate(identity, id, processing_result, status, error_message, bypass) ==
    IF id \notin DOMAIN documents
    THEN /\ Reply("documents.update", identity, id, "Document not found", None)
         /\ UNCHANGED <<workflows, wfIssued, executions, exIssued, documents,
                        docIssued, clock>>
    ELSE IF DocumentUpdateDenied(bypass, identity, documents[id].userId)
    THEN /\ Reply("documents.update", identity, id, "Access denied", None)
         /\ UNCHANGED <<workflows, wfIssued, executions, exIssued, documents,
                        docIssued, clock>>
    ELSE /\ documents' = [documents EXCEPT ![id] =
                DocumentPatch(@, processing_result, status, error_message, clock)]
         /\ Reply("documents.update", identity, id, "ok", Some(id))
         /\ UNCHANGED <<workflows, wfIssued, executions, exIssued, docIssued,
                        clock>>

DocumentsRemove(identity, id) ==
    IF ~IsSome(identity)
    THEN /\ Reply("documents.remove", identity, id, "Not authenticated", None)
         /\ UNCHANGED <<workflows, wfIssued, executions, exIssued, documents,
                        docIssued, clock>>
    ELSE IF id \notin DOMAIN documents
    THEN /\ Reply("documents.remove", identity, id, "Document not found", None)
         /\ UNCHANGED <<workflows, wfIssued, executions, exIssued, documents,
                        docIssued, clock>>
    ELSE IF OwnedByOther(documents[id].userId, identity[1])
    THEN /\ Reply("documents.remove", identity, id, "Access denied", None)
         /\ UNCHANGED <<workflows, wfIssued, executions, exIssued, documents,
                        docIssued, clock>>
    ELSE /\ documents' = [i \in DOMAIN documents \ {id} |-> documents[i]]
         /\ Reply("documents.remove", identity, id, "ok", None)
         /\ UNCHANGED <<workflows, wfIssued, executions, exIssued, docIssued,
                        clock>>

----------------------------------------------------------------------------
(* The clock read by new Date(): it never runs backwards, and it need not *)
(* have advanced between two calls.                                        *)

Tick ==
    /\ clock < MaxTime
    /\ clock' = clock + 1
    /\ UNCHANGED <<workflows, wfIssued, executions, exIssued, documents,
                   docIssued, result, front>>

----------------------------------------------------------------------------
(* The store after deployment: empty, or holding rows written before the   *)
(* userId field existed. A table is a function from the ids of its rows    *)
(* (ids are issued in creation order and never reused) to the rows.        *)

InitRest ==
    /\ \E legacyWf \in BOOLEAN, legacyEx \in BOOLEAN :
          /\ legacyEx => legacyWf
          /\ workflows = IF legacyWf THEN <<LegacyWorkflow>> ELSE <<>>
          /\ wfIssued = IF legacyWf THEN 1 ELSE 0
          /\ executions = IF legacyEx THEN <<LegacyExecution>> ELSE <<>>
          /\ exIssued = IF legacyEx THEN 1 ELSE 0
    /\ documents = <<>>
    /\ docIssued = 0
    /\ clock = 0
    /\ result = [op |-> "none", caller |-> None, id |-> 0, out |-> "ok",
                 ret |-> None]
    /\ nodes = <<>>
    /\ edges = {}
    /\ currentWorkflow = None
    /\ loading = FALSE
    /\ isExecuting = FALSE
    /\ pendingSave = None
    /\ pendingDelete = None
    /\ picker = None
    /\ pendingRun = None
    /\ uploadSave = None
    /\ response = None
    /\ run = None
    /\ invoked = <<>>
    /\ returned = None
    /\ error = None
    /\ request = None
    /\ job = None
    /\ backendCalls = <<>>
    /\ cleanOut = None

\* cleanProcessingResult has not been called
Init == InitRest /\ cleanIn = None

----------------------------------------------------------------------------
(* The workflow builder's traffic: every workflows.ts definition handler.  *)

WfDescriptions == {None, Some("d")}

OptBool == {None, Some(TRUE), Some(FALSE)}

ListWorkflows ==
    \E c \in Identities, f \in OptBool :
        WorkflowsList(c, f) /\ UNCHANGED front

GetWorkflow ==
    \E c \in Identities, id \in WorkflowIds :
        WorkflowsGet(c, id) /\ UNCHANGED front

CreateWorkflow ==
    \E c \in Identities, d \in WfDescriptions, f \in {None, Some(FALSE)} :
        WorkflowsCreate(c, "a", d, GraphChain, f) /\ UNCHANGED front

UpdateWorkflow ==
    \E c \in Identities, id \in WorkflowIds,
       n \in {None, Some("x")}, d \in WfDescriptions,
       g \in {None, Some(GraphSingle)}, f \in {None, Some(FALSE)} :
        WorkflowsUpdate(c, id, n, d, g, f) /\ UNCHANGED front

RemoveWorkflow ==
    \E c \in Identities, id \in WorkflowIds :
        WorkflowsRemove(c, id) /\ UNCHANGED front

NextWf ==
    \/ ListWorkflows
    \/ GetWorkflow
    \/ CreateWorkflow
    \/ UpdateWorkflow
    \/ RemoveWorkflow
    \/ Tick

SpecWf == Init /\ [][NextWf]_vars

----------------------------------------------------------------------------
(* The execution engine's traffic: every workflows.ts execution handler,   *)
(* over workflows created by their users.                                  *)

OptStatus == {None} \cup {Some(st) : st \in ExecutionStatuses}

OptOutput == {None, Some("out")}

OptError == {None, Some("err")}

OptCompletedAt == {None, Some("t")}

PlainWorkflow ==
    \E c \in Identities :
        WorkflowsCreate(c, "a", None, GraphChain, None) /\ UNCHANGED front

ListRuns ==
    \E c \in Identities, w \in {None} \cup {Some(i) : i \in WorkflowIds},
       st \in {None, Some("completed")} :
        ListExecutions(c, w, st) /\ UNCHANGED front

GetRun ==
    \E c \in Identities, id \in ExecutionIds :
        GetExecution(c, id) /\ UNCHANGED front

StartRun ==
    \E c \in Identities, w \in WorkflowIds, in \in {None, Some("files")},
       st \in OptStatus :
        CreateExecution(c, w, in, st) /\ exIssued' <= MaxExecutions
            /\ UNCHANGED front

UpdateRun ==
    \E c \in Identities, id \in ExecutionIds, st \in OptStatus,
       o \in OptOutput, e \in OptError, t \in OptCompletedAt :
        UpdateExecution(c, id, st, o, e, t) /\ UNCHANGED front

NextEx ==
    \/ PlainWorkflow
    \/ ListRuns
    \/ GetRun
    \/ StartRun
    \/ UpdateRun
    \/ Tick

SpecEx == Init /\ [][NextEx]_vars

----------------------------------------------------------------------------
(* Every caller against every row: the guarded handlers of workflows.ts    *)
(* with one update payload each.                                           *)

RenameWorkflow ==
    \E c \in Identities, id \in WorkflowIds :
        WorkflowsUpdate(c, id, Some("x"), None, None, None) /\ UNCHANGED front

MarkRunning ==
    \E c \in Identities, id \in ExecutionIds :
        UpdateExecution(c, id, Some("running"), None, None, None)
            /\ UNCHANGED front

BeginRun ==
    \E c \in Identities, w \in WorkflowIds :
        CreateExecution(c, w, None, None) /\ exIssued' <= MaxExecutions
            /\ UNCHANGED front

Next ==
    \/ PlainWorkflow
    \/ RenameWorkflow
    \/ GetWorkflow
    \/ RemoveWorkflow
    \/ BeginRun
    \/ MarkRunning
    \/ GetRun

Spec == Init /\ [][Next]_vars

----------------------------------------------------------------------------
(* Starting runs: createExecution with every argument value.               *)

NextRun ==
    \/ PlainWorkflow
    \/ StartRun
    \/ Tick

SpecRun == Init /\ [][NextRun]_vars

----------------------------------------------------------------------------
(* Two runs of one workflow side by side: createExecution and              *)
(* updateExecution, up to MaxRuns runs.                                    *)

RunIds == 1..MaxRuns

BeginPair ==
    \E c \in Identities, w \in WorkflowIds :
        CreateExecution(c, w, None, None) /\ exIssued' <= MaxRuns
            /\ UNCHANGED front

AdvanceRun ==
    \E c \in Identities, id \in RunIds, st \in {"running", "completed"} :
        UpdateExecution(c, id, Some(st), None, None, None) /\ UNCHANGED front

NextPair ==
    \/ PlainWorkflow
    \/ BeginPair
    \/ AdvanceRun

SpecPair == Init /\ [][NextPair]_vars

----------------------------------------------------------------------------
(* Definitions as the mutations take them: definition is v.any(), so a     *)
(* client may hand in any graph.                                           *)

Definitions == {GraphChain, GraphSingle, GraphDangling}

SaveDefinition ==
    \E c \in Identities, g \in Definitions : WorkflowsCreate(c, "a", None, g, None)
        /\ UNCHANGED front

ReplaceDefinition ==
    \E c \in Identities, id \in WorkflowIds, g \in Definitions :
        WorkflowsUpdate(c, id, None, None, Some(g), None) /\ UNCHANGED front

NextDef ==
    \/ SaveDefinition
    \/ ReplaceDefinition
    \/ GetWorkflow
    \/ Tick

SpecDef == Init /\ [][NextDef]_vars

----------------------------------------------------------------------------
(* The upload pipeline's traffic: every documents.ts handler.              *)

OptUser == {None} \cup {Some(u) : u \in Users}

ProcessingResult ==
    [ocr_text |-> "text", extracted_entities |-> <<>>,
     extraction_metadata |-> "meta", processing_stats |-> "stats"]

ListDocuments ==
    \E c \in Identities, l \in {None, Some(1)},
       f \in {None, Some("processed")} :
        DocumentsList(c, l, f) /\ UNCHANGED front

GetDocument ==
    \E c \in Identities, id \in DocumentIds :
        DocumentsGet(c, id) /\ UNCHANGED front

CreateDocument ==
    \E c \in Identities, st \in DocumentStatuses, e \in OptError, u \in OptUser :
        DocumentsCreate(c, "f.pdf", 1, "application/pdf", st, e, u)
            /\ UNCHANGED front

UpdateDocument ==
    \E c \in Identities, id \in DocumentIds,
       r \in {None, Some(ProcessingResult)},
       st \in {None} \cup {Some(s) : s \in DocumentStatuses},
       e \in OptError, b \in OptBool :
        DocumentsUpdate(c, id, r, st, e, b) /\ UNCHANGED front

RemoveDocument ==
    \E c \in Identities, id \in DocumentIds :
        DocumentsRemove(c, id) /\ UNCHANGED front

NextDoc ==
    \/ ListDocuments
    \/ GetDocument
    \/ CreateDocument
    \/ UpdateDocument
    \/ RemoveDocument
    \/ Tick

SpecDoc == Init /\ [][NextDoc]_vars

----------------------------------------------------------------------------
(* The workflow builder page: the canvas (nodes, edges), the current       *)
(* workflow, and the handlers of app/workflows/page.tsx. An async handler  *)
(* is two steps: up to its await, with the state of the render it was      *)
(* created in (its closure), and from the await on, once the call settled. *)

convex == <<workflows, wfIssued, executions, exIssued, documents, docIssued>>

\* the Clerk session as Convex sees it: signed in, or expired
SessionIdentities == {None, Some("alice")}

\* useQuery(api.workflows.list, {}): the rows the page shows to the session
Listed(identity) ==
    {id \in DOMAIN workflows : IsSome(identity) => workflows[id].userId = identity}

\* a node on the canvas: its data carries the onConfigUpdate callback
CanvasNode(type, ms) ==
    [id |-> NodeId(type, ms), type |-> type, onConfigUpdate |-> TRUE]

\* prev?.description || ''
DescriptionOrEmpty(prev) ==
    IF IsSome(prev) /\ IsSome(prev[1].description) THEN prev[1].description
    ELSE Some("")

\* the name input's onChange
onNameChange(name) ==
    /\ currentWorkflow' =
          Some([id |-> IF IsSome(currentWorkflow) THEN currentWorkflow[1].id ELSE None,
                name |-> name,
                description |-> DescriptionOrEmpty(currentWorkflow)])
    /\ UNCHANGED <<nodes, edges, loading, isExecuting, pendingSave,
                   pendingDelete, picker, pendingRun>>
    /\ UNCHANGED <<convex, clock, result, uploadSave, response, engine, error, pipeline>>

addNode(type) ==
    /\ nodes' = Append(nodes, CanvasNode(type, clock))
    /\ UNCHANGED <<edges, currentWorkflow, loading, isExecuting, pendingSave,
                   pendingDelete, picker, pendingRun>>
    /\ UNCHANGED <<convex, clock, result, uploadSave, response, engine, error, pipeline>>

\* addEdge(params, eds) between two nodes of the canvas
onConnect(source, target) ==
    /\ edges' = edges \cup {<<nodes[source].id, nodes[target].id>>}
    /\ UNCHANGED <<nodes, currentWorkflow, loading, isExecuting, pendingSave,
                   pendingDelete, picker, pendingRun>>
    /\ UNCHANGED <<convex, clock, result, uploadSave, response, engine, error, pipeline>>

\* up to `await saveWorkflow(workflowToSave)`: the mutation's arguments are
\* the current workflow and the canvas as they are
handleSaveWorkflow ==
    /\ IsSome(currentWorkflow)
    /\ currentWorkflow[1].name # ""
    /\ pendingSave' = Some([closure |-> currentWorkflow[1],
                            definition |-> [nodes |-> nodes, edges |-> edges]])
    /\ loading' = TRUE
    /\ error' = None
    /\ UNCHANGED <<nodes, edges, currentWorkflow, isExecuting, pendingDelete,
                   picker, pendingRun>>
    /\ UNCHANGED <<convex, clock, result, uploadSave, response, engine, pipeline>>

\* saveWorkflow's mutation for a pending save: update with an id, create
\* without
SaveMutation(identity, w, definition) ==
    IF IsSome(w.id)
    THEN WorkflowsUpdate(identity, w.id[1], Some(w.name), w.description,
                         Some(definition), Some(TRUE))
    ELSE WorkflowsCreate(identity, w.name, w.description, definition, Some(TRUE))

\* the catch of saveWorkflow and deleteWorkflow: setError(error.message)
MutationError == IF result'.out = "ok" THEN error ELSE Some(result'.out)

\* what saveWorkflow returns: the id, or null when the mutation threw
SavedId == IF result'.out = "ok" THEN Some(result'.id) ELSE None

\* from the await on: `if (savedId && !currentWorkflow.id)` reads the
\* closure, and the object written back is the closure's with the id
saveWorkflowSettled ==
    /\ IsSome(pendingSave)
    /\ \E c \in SessionIdentities :
          SaveMutation(c, pendingSave[1].closure, pendingSave[1].definition)
    /\ currentWorkflow' =
          IF IsSome(SavedId) /\ ~IsSome(pendingSave[1].closure.id)
          THEN Some([pendingSave[1].closure EXCEPT !.id = SavedId])
          ELSE currentWorkflow
    /\ pendingSave' = None
    /\ loading' = FALSE
    /\ error' = MutationError
    /\ UNCHANGED <<nodes, edges, isExecuting, pendingDelete, picker, pendingRun>>
    /\ UNCHANGED <<uploadSave, response, engine, pipeline>>

handleLoadWorkflow(id) ==
    /\ currentWorkflow' = Some([id |-> Some(id), name |-> workflows[id].name,
                                description |-> workflows[id].description])
    /\ nodes' = [i \in 1..Len(workflows[id].definition.nodes) |->
                    [workflows[id].definition.nodes[i] EXCEPT !.onConfigUpdate = TRUE]]
    /\ edges' = workflows[id].definition.edges
    /\ UNCHANGED <<loading, isExecuting, pendingSave, pendingDelete, picker,
                   pendingRun>>
    /\ UNCHANGED <<convex, clock, result, uploadSave, response, engine, error, pipeline>>

\* currentWorkflow as handleNewWorkflow sets it
NewWorkflow == [id |-> None, name |-> "", description |-> Some("")]

handleNewWorkflow ==
    /\ currentWorkflow' = Some(NewWorkflow)
    /\ nodes' = <<>>
    /\ edges' = {}

\* up to `await deleteWorkflow(workflowId)`
handleDeleteWorkflow(workflowId) ==
    /\ pendingDelete' = Some([closure |-> currentWorkflow, workflowId |-> workflowId])
    /\ loading' = TRUE
    /\ error' = None
    /\ UNCHANGED <<nodes, edges, currentWorkflow, isExecuting, pendingSave,
                   picker, pendingRun>>
    /\ UNCHANGED <<convex, clock, result, uploadSave, response, engine, pipeline>>

\* from the await on: `currentWorkflow?.id === workflowId` reads the closure
deleteWorkflowSettled ==
    /\ IsSome(pendingDelete)
    /\ \E c \in SessionIdentities : WorkflowsRemove(c, pendingDelete[1].workflowId)
    /\ IF /\ result'.out = "ok"
          /\ IsSome(pendingDelete[1].closure)
          /\ pendingDelete[1].closure[1].id = Some(pendingDelete[1].workflowId)
       THEN handleNewWorkflow
       ELSE UNCHANGED <<currentWorkflow, nodes, edges>>
    /\ pendingDelete' = None
    /\ loading' = FALSE
    /\ error' = MutationError
    /\ UNCHANGED <<isExecuting, pendingSave, picker, pendingRun>>
    /\ UNCHANGED <<uploadSave, response, engine, pipeline>>

\* `if (!currentWorkflow?.id) return`, then executeWorkflow's fetch of
\* /api/workflows/{id}/execute; currentWorkflow is the closure's
executeWorkflowWithFiles(closure) ==
    IF IsSome(closure) /\ IsSome(closure[1].id)
    THEN /\ pendingRun' = closure[1].id
         /\ isExecuting' = TRUE
         /\ loading' = TRUE
         /\ error' = None
    ELSE UNCHANGED <<pendingRun, isExecuting, loading, error>>

\* with a document-input node on the canvas the file dialog opens and its
\* onchange keeps the handlers of this render; otherwise the run starts
handleRunWorkflow ==
    /\ IsSome(currentWorkflow)
    /\ IsSome(currentWorkflow[1].id)
    /\ IF \E i \in 1..Len(nodes) : nodes[i].type = "document-input"
       THEN /\ picker' = Some(currentWorkflow)
            /\ UNCHANGED <<pendingRun, isExecuting, loading, error>>
       ELSE /\ executeWorkflowWithFiles(currentWorkflow)
            /\ picker' = picker
    /\ UNCHANGED <<nodes, edges, currentWorkflow, pendingSave, pendingDelete>>
    /\ UNCHANGED <<convex, clock, result, uploadSave, response, engine, pipeline>>

\* input.onchange with files chosen
onFilesChosen ==
    /\ IsSome(picker)
    /\ executeWorkflowWithFiles(picker[1])
    /\ picker' = None
    /\ UNCHANGED <<nodes, edges, currentWorkflow, pendingSave, pendingDelete>>
    /\ UNCHANGED <<convex, clock, result, uploadSave, response, engine, pipeline>>

\* the file dialog closed without a choice: onchange never fires
onFilesCancelled ==
    /\ IsSome(picker)
    /\ picker' = None
    /\ UNCHANGED <<nodes, edges, currentWorkflow, loading, isExecuting,
                   pendingSave, pendingDelete, pendingRun>>
    /\ UNCHANGED <<convex, clock, result, uploadSave, response, engine, error, pipeline>>

\* the response arrives: executeWorkflow's catch when it is not ok, its
\* finally and executeWorkflowWithFiles' finally
executeWorkflowSettled ==
    /\ IsSome(pendingRun)
    /\ pendingRun' = None
    /\ isExecuting' = FALSE
    /\ loading' = FALSE
    /\ \E ok \in BOOLEAN :
          error' = IF ok THEN error ELSE Some("Workflow execution failed")
    /\ UNCHANGED <<nodes, edges, currentWorkflow, pendingSave, pendingDelete,
                   picker>>
    /\ UNCHANGED <<convex, clock, result, uploadSave, response, engine, pipeline>>

----------------------------------------------------------------------------
(* The upload page's Create Workflow, in another tab of the same session.  *)

\* createWorkflowFromDetection's template: a chain whose nodes may or may
\* not carry callbacks
Template(callbacks) ==
    [GraphChain EXCEPT !.nodes =
        [i \in 1..Len(GraphChain.nodes) |->
            [GraphChain.nodes[i] EXCEPT !.onConfigUpdate = callbacks]]]

\* {id, type, position, data: {label, config}}: the callback is left out
CleanNode(node) == [id |-> node.id, type |-> node.type, onConfigUpdate |-> FALSE]

\* up to `await saveWorkflow(cleanWorkflowData)`
handleCreateWorkflow(template) ==
    /\ uploadSave' =
          Some([nodes |-> [i \in 1..Len(template.nodes) |-> CleanNode(template.nodes[i])],
                edges |-> template.edges])
    /\ UNCHANGED <<convex, clock, result, builder, response, engine, error, pipeline>>

\* the create mutation of that save
createWorkflowSettled ==
    /\ IsSome(uploadSave)
    /\ \E c \in SessionIdentities :
          WorkflowsCreate(c, "t", Some("d"), uploadSave[1], Some(TRUE))
    /\ uploadSave' = None
    /\ UNCHANGED <<builder, response, engine, error, pipeline>>

----------------------------------------------------------------------------
(* What the user can do on the builder page. The file dialog is modal: no  *)
(* click reaches the page while it is open. A disabled button takes no     *)
(* click: Run is disabled={isExecuting || !currentWorkflow?.id}, Save is   *)
(* disabled={loading || !currentWorkflow?.name}, and the list of saved     *)
(* workflows is replaced by a spinner while loading.                       *)

TypeName == picker = None /\ \E name \in {"", "a"} : onNameChange(name)

AddNode ==
    /\ picker = None
    /\ Len(nodes) < MaxNodes
    /\ \E type \in NodeTypes : addNode(type)

Connect ==
    /\ picker = None
    /\ \E source \in 1..Len(nodes), target \in 1..Len(nodes) :
          nodes[source].id # nodes[target].id /\ onConnect(source, target)

ClickSave == picker = None /\ ~loading /\ handleSaveWorkflow

ClickLoad ==
    /\ picker = None
    /\ ~loading
    /\ \E c \in SessionIdentities : \E id \in Listed(c) : handleLoadWorkflow(id)

ClickDelete ==
    /\ picker = None
    /\ ~loading
    /\ \E c \in SessionIdentities : \E id \in Listed(c) : handleDeleteWorkflow(id)

ClickRun == picker = None /\ ~isExecuting /\ handleRunWorkflow

ClickCreateWorkflow ==
    uploadSave = None /\ \E cb \in BOOLEAN : handleCreateWorkflow(Template(cb))

\* saving, loading, deleting and running workflows
NextBuilder ==
    \/ TypeName
    \/ AddNode
    \/ ClickSave
    \/ saveWorkflowSettled
    \/ ClickLoad
    \/ ClickDelete
    \/ deleteWorkflowSettled
    \/ ClickRun
    \/ onFilesChosen
    \/ onFilesCancelled
    \/ executeWorkflowSettled
    \/ ClickCreateWorkflow
    \/ createWorkflowSettled

SpecBuilder == Init /\ [][NextBuilder]_vars

\* editing the canvas, as time passes
NextCanvas ==
    \/ AddNode
    \/ Connect
    \/ ClickLoad
    \/ ClickCreateWorkflow
    \/ createWorkflowSettled
    \/ Tick

SpecCanvas == Init /\ [][NextCanvas]_vars

----------------------------------------------------------------------------
(* app/api/documents/[id]/route.ts: GET and DELETE of one document. The    *)
(* route asks Clerk for the user and a Convex token, calls the store as    *)
(* that user and turns the outcome into an HTTP status.                    *)

Respond(method, identity, id, status) ==
    response' = Some([method |-> method, caller |-> identity, id |-> id,
                      status |-> status])

\* the catch blocks of GET: only 'Access denied' is told apart
StatusOfGet(out) ==
    IF out = "ok" THEN 200
    ELSE IF out = "Access denied" THEN 403
    ELSE 500

\* the catch blocks of DELETE
StatusOfDelete(out) ==
    IF out = "ok" THEN 200
    ELSE IF out = "Access denied" THEN 403
    ELSE IF out = "Document not found" THEN 404
    ELSE 500

DocumentRouteGET(identity, token, id) ==
    IF ~IsSome(identity) \/ ~token
    THEN /\ Respond("GET", identity, id, 401)
         /\ UNCHANGED <<convex, clock, result>>
    ELSE /\ DocumentsGet(identity, id)
         /\ Respond("GET", identity, id, StatusOfGet(result'.out))

DocumentRouteDELETE(identity, token, id) ==
    IF ~IsSome(identity) \/ ~token
    THEN /\ Respond("DELETE", identity, id, 401)
         /\ UNCHANGED <<convex, clock, result>>
    ELSE /\ DocumentsRemove(identity, id)
         /\ Respond("DELETE", identity, id, StatusOfDelete(result'.out))

FetchDocument ==
    \E c \in Identities, token \in BOOLEAN, id \in DocumentIds :
        DocumentRouteGET(c, token, id) /\ UNCHANGED <<builder, uploadSave, engine, error, pipeline>>

DeleteDocument ==
    \E c \in Identities, token \in BOOLEAN, id \in DocumentIds :
        DocumentRouteDELETE(c, token, id) /\ UNCHANGED <<builder, uploadSave, engine, error, pipeline>>

NextRoute ==
    \/ CreateDocument
    \/ FetchDocument
    \/ DeleteDocument
    \/ Tick

SpecRoute == Init /\ [][NextRoute]_vars

----------------------------------------------------------------------------
(* The workflow validator of the backend, reached through the proxy route  *)
(* /api/workflows/validate.                                                *)

\* a chain of three nodes, A -> B -> C
GraphChain3 ==
    [nodes |-> <<StoredNode("document-input", -1), StoredNode("ocr-processor", -1),
                 StoredNode("export-data", -1)>>,
     edges |-> {<<NodeId("document-input", -1), NodeId("ocr-processor", -1)>>,
                <<NodeId("ocr-processor", -1), NodeId("export-data", -1)>>}]

\* two branches out of one node, A -> B and A -> C
GraphFork ==
    [nodes |-> <<StoredNode("document-input", -1), StoredNode("ocr-processor", -1),
                 StoredNode("export-data", -1)>>,
     edges |-> {<<NodeId("document-input", -1), NodeId("ocr-processor", -1)>>,
                <<NodeId("document-input", -1), NodeId("export-data", -1)>>}]

\* two nodes that feed each other
GraphCycle ==
    [nodes |-> <<StoredNode("document-input", -1), StoredNode("ocr-processor", -1)>>,
     edges |-> {<<NodeId("document-input", -1), NodeId("ocr-processor", -1)>>,
                <<NodeId("ocr-processor", -1), NodeId("document-input", -1)>>}]

\* a cycle behind an entry node, A -> B -> C -> B
GraphLoop ==
    [nodes |-> <<StoredNode("document-input", -1), StoredNode("ocr-processor", -1),
                 StoredNode("export-data", -1)>>,
     edges |-> {<<NodeId("document-input", -1), NodeId("ocr-processor", -1)>>,
                <<NodeId("ocr-processor", -1), NodeId("export-data", -1)>>,
                <<NodeId("export-data", -1), NodeId("ocr-processor", -1)>>}]

\* the edges whose two ends are nodes of the definition
SoundEdges(definition) ==
    {e \in definition.edges :
        e[1] \in NodeIds(definition) /\ e[2] \in NodeIds(definition)}

\* the direct predecessors of a node
Predecessors(definition, id) ==
    {e[1] : e \in {x \in SoundEdges(definition) : x[2] = id}}

\* the nodes not yet placed whose predecessors are all placed, by position
\* in `nodes`
Ready(definition, placed) ==
    {i \in 1..Len(definition.nodes) :
        /\ \A k \in 1..Len(placed) : placed[k] # definition.nodes[i].id
        /\ \A q \in Predecessors(definition, definition.nodes[i].id) :
              \E k \in 1..Len(placed) : placed[k] = q}

\* the topological order, ties broken by position in `nodes`; it stops
\* short of the nodes on or behind a cycle
RECURSIVE PlaceNodes(_, _)
PlaceNodes(definition, placed) ==
    LET ready == Ready(definition, placed)
    IN  IF ready = {} THEN placed
        ELSE LET first == CHOOSE i \in ready : \A j \in ready : i <= j
             IN  PlaceNodes(definition, Append(placed, definition.nodes[first].id))

\* the nodes as they are listed, the edges not looked at
ListedOrder(definition) ==
    [i \in 1..Len(definition.nodes) |-> definition.nodes[i].id]

TopologicalOrder(definition) == PlaceNodes(definition, <<>>)

TypesOf(definition) ==
    {definition.nodes[i].type : i \in 1..Len(definition.nodes)}

\* the nodes reached from the document-input nodes along edges
RECURSIVE Reached(_, _)
Reached(definition, from) ==
    LET next == from \cup {e[2] : e \in {x \in SoundEdges(definition) : x[1] \in from}}
    IN  IF next = from THEN from ELSE Reached(definition, next)

InputIds(definition) ==
    {definition.nodes[i].id : i \in {k \in 1..Len(definition.nodes) :
                                        definition.nodes[k].type = "document-input"}}

ValidationErrors(definition) ==
    (IF SoundEdges(definition) # definition.edges THEN {"DanglingEdge"} ELSE {})
    \cup (IF Len(TopologicalOrder(definition)) < Cardinality(NodeIds(definition))
          THEN {"CyclicGraph"} ELSE {})
    \cup (IF "ocr-processor" \in TypesOf(definition)
             /\ "document-input" \notin TypesOf(definition)
          THEN {"MissingDocumentInput"} ELSE {})

ValidationWarnings(definition) ==
    (IF NodeIds(definition) \ Reached(definition, InputIds(definition)) # {}
     THEN {"UnreachableNode"} ELSE {})
    \cup (IF "export-data" \notin TypesOf(definition) THEN {"NoExportNode"} ELSE {})

\* validate(definition)
Validate(definition) ==
    [is_valid |-> ValidationErrors(definition) = {},
     errors |-> ValidationErrors(definition),
     warnings |-> ValidationWarnings(definition),
     node_count |-> Len(definition.nodes),
     edge_count |-> Cardinality(definition.edges)]

\* POST /api/workflows/validate: the backend's report, or 500 when the
\* backend answers not-ok or cannot be reached
ValidateRouteReply(body, backendOk) ==
    IF backendOk
    THEN [route |-> "validate", status |-> 200, body |-> Validate(body)]
    ELSE [route |-> "validate", status |-> 500, body |-> [error |-> "Backend error"]]

ValidateRoutePOST(body, backendOk) ==
    /\ response' = Some(ValidateRouteReply(body, backendOk))
    /\ UNCHANGED <<convex, clock, result, builder, uploadSave, engine, error, pipeline>>

\* the report validateWorkflow's catch hands back
ValidationFallback(definition) ==
    [is_valid |-> FALSE, errors |-> {"Failed to validate workflow"},
     warnings |-> {}, node_count |-> Len(definition.nodes),
     edge_count |-> Cardinality(definition.edges)]

\* validateWorkflow whose fallback report loses the counts
validateWorkflowNoCounts(definition, reply) ==
    IF IsSome(reply) /\ reply[1].status \in 200..299
    THEN reply[1].body
    ELSE [ValidationFallback(definition) EXCEPT !.node_count = 0, !.edge_count = 0]

\* useWorkflows.validateWorkflow: the route's body when response.ok, the
\* fallback when it is not or when the fetch threw (no reply)
validateWorkflow(definition, reply) ==
    IF IsSome(reply) /\ reply[1].status \in 200..299
    THEN reply[1].body
    ELSE ValidationFallback(definition)

\* handleValidateWorkflow: validateWorkflow({nodes, edges}) of the canvas
handleValidateWorkflow(reachable, backendOk) ==
    LET definition == [nodes |-> nodes, edges |-> edges]
        reply == IF reachable THEN Some(ValidateRouteReply(definition, backendOk))
                 ELSE None
    IN  /\ response' = IF reachable THEN reply ELSE response
        /\ returned' = Some(validateWorkflow(definition, reply))
        /\ UNCHANGED <<convex, clock, result, builder, uploadSave, run, invoked,
                       error, pipeline>>

----------------------------------------------------------------------------
(* The execution engine of the backend, reached through the proxy route    *)
(* /api/workflows/{id}/execute and useWorkflows.executeWorkflow.           *)

\* an error body of the backend: detail and message are absent (or empty)
\* or present
ErrorBody(detail, message) == [detail |-> detail, message |-> message]

\* the backend answered the route's fetch
BackendReply(status, body) ==
    [thrown |-> None, status |-> status, parsable |-> TRUE, body |-> body]

\* request.formData() or the fetch threw
BackendThrew(message) ==
    [thrown |-> Some(message), status |-> 0, parsable |-> FALSE,
     body |-> ErrorBody(None, None)]

\* `Workflow execution failed: ${response.statusText}`, told apart by the
\* status text
StatusText(status) ==
    CASE status = 400 -> "Bad Request"
      [] status = 404 -> "Not Found"
      [] status = 422 -> "Unprocessable Entity"
      [] status = 500 -> "Internal Server Error"
      [] OTHER -> ""

\* errorData.detail || errorData.message || `Workflow execution failed: ...`
\* (errorData is {} when the body does not parse)
ErrorMessage(backend) ==
    IF ~backend.parsable THEN StatusText(backend.status)
    ELSE IF "text" \in DOMAIN backend.body THEN backend.body.text
    ELSE IF "detail" \in DOMAIN backend.body /\ IsSome(backend.body.detail)
    THEN backend.body.detail[1]
    ELSE IF "message" \in DOMAIN backend.body /\ IsSome(backend.body.message)
    THEN backend.body.message[1]
    ELSE StatusText(backend.status)

\* the 422 branch: errorData.detail || 'Validation error occurred', and
\* {detail: 'Validation error'} when the body does not parse
ValidationDetail(backend) ==
    IF ~backend.parsable THEN "Validation error"
    ELSE IF "detail" \in DOMAIN backend.body /\ IsSome(backend.body.detail)
    THEN backend.body.detail[1]
    ELSE "Validation error occurred"

\* the route with the 422 branch lost: a validation rejection becomes 500
ExecuteRoutePOSTNo422(backend) ==
    IF IsSome(backend.thrown)
    THEN [route |-> "execute", status |-> 500, body |-> [error |-> backend.thrown[1]]]
    ELSE IF backend.status \in 200..299 /\ backend.parsable
    THEN [route |-> "execute", status |-> 200, body |-> backend.body]
    ELSE IF backend.status = 404
    THEN [route |-> "execute", status |-> 404,
          body |-> [error |-> "Workflow not found"]]
    ELSE [route |-> "execute", status |-> 500,
          body |-> [error |-> ErrorMessage(backend)]]

\* POST /api/workflows/{id}/execute: the route's answer to what the backend
\* did
ExecuteRoutePOST(backend) ==
    IF IsSome(backend.thrown)
    THEN [route |-> "execute", status |-> 500, body |-> [error |-> backend.thrown[1]]]
    ELSE IF backend.status \in 200..299
    THEN IF backend.parsable
         THEN [route |-> "execute", status |-> 200, body |-> backend.body]
         ELSE [route |-> "execute", status |-> 500,
               body |-> [error |-> "Unexpected end of JSON input"]]
    ELSE IF backend.status = 404
    THEN [route |-> "execute", status |-> 404,
          body |-> [error |-> "Workflow not found"]]
    ELSE IF backend.status = 422
    THEN [route |-> "execute", status |-> 422,
          body |-> [error |-> ValidationDetail(backend)]]
    ELSE [route |-> "execute", status |-> 500,
          body |-> [error |-> ErrorMessage(backend)]]

\* executeWorkflow with a failed run taken for an error
executeWorkflowStrict(reply) ==
    IF reply.status \in 200..299 /\ reply.body.status # "failed"
    THEN Some(reply.body)
    ELSE None

\* useWorkflows.executeWorkflow: the body when response.ok, null otherwise
executeWorkflow(reply) ==
    IF reply.status \in 200..299 THEN Some(reply.body) ELSE None

\* the error state executeWorkflow leaves: null after setError(null) when
\* response.ok, else errorData.detail || `Workflow execution failed: ...`
executeWorkflowError(reply) ==
    IF reply.status \in 200..299 THEN None
    ELSE IF "detail" \in DOMAIN reply.body /\ IsSome(reply.body.detail)
    THEN Some(reply.body.detail[1])
    ELSE Some(StatusText(reply.status))

\* the request is answered without a run
Rejected(backend) ==
    /\ response' = Some(ExecuteRoutePOST(backend))
    /\ returned' = executeWorkflow(ExecuteRoutePOST(backend))
    /\ error' = executeWorkflowError(ExecuteRoutePOST(backend))
    /\ UNCHANGED <<convex, run, invoked>>

\* the record of a run, pending, owned as its workflow is
EngineRecord(workflow_id, now) ==
    [workflow_id |-> workflow_id, status |-> "pending",
     input_data |-> Some("files"), output_data |-> None, error_message |-> None,
     started_at |-> now, completed_at |-> None,
     userId |-> workflows[workflow_id].userId]

\* execute, steps 1 to 3: reject a missing or invalid definition, else fix
\* the order and create the record
execute(id) ==
    /\ run = None
    /\ IF id \notin DOMAIN workflows
       THEN Rejected(BackendReply(404, ErrorBody(Some("Not found"), None)))
       ELSE IF ~Validate(workflows[id].definition).is_valid
       THEN Rejected(BackendReply(422,
                ErrorBody(Some(Validate(workflows[id].definition).errors), None)))
       ELSE /\ exIssued' = exIssued + 1
            /\ executions' = [i \in DOMAIN executions \cup {exIssued + 1} |->
                    IF i = exIssued + 1 THEN EngineRecord(id, clock)
                    ELSE executions[i]]
            /\ run' = Some([workflow_id |-> id, execution_id |-> exIssued + 1,
                            definition |-> workflows[id].definition,
                            order |-> TopologicalOrder(workflows[id].definition),
                            position |-> 0,
                            outcome |-> [n \in NodeIds(workflows[id].definition)
                                            |-> "waiting"]])
            /\ error' = None
            /\ UNCHANGED <<workflows, wfIssued, documents, docIssued, invoked,
                           response, returned>>
    /\ UNCHANGED <<clock, result, builder, pipeline, uploadSave>>

\* step 3, second half: the record moves to running
beginRun ==
    /\ IsSome(run)
    /\ run[1].position = 0
    /\ executions' = [executions EXCEPT ![run[1].execution_id].status = "running"]
    /\ run' = Some([run[1] EXCEPT !.position = 1])
    /\ UNCHANGED <<workflows, wfIssued, exIssued, documents, docIssued, clock,
                   result, builder, pipeline, uploadSave, response, invoked, returned,
                   error>>

\* the skip test that looks only at failed predecessors, not at skipped ones
DependsOnDirectFailure(definition, outcome, id) ==
    \E q \in Predecessors(definition, id) : outcome[q] = "failed"

\* step 4e: the node's input depends on a failed node, through a
\* predecessor that failed or was itself skipped
DependsOnFailure(definition, outcome, id) ==
    \E q \in Predecessors(definition, id) : outcome[q] \in {"failed", "skipped"}

\* step 4: the next node in order is skipped, or its executor is invoked
\* and succeeds or fails
stepNode ==
    /\ IsSome(run)
    /\ run[1].position \in 1..Len(run[1].order)
    /\ LET id == run[1].order[run[1].position]
       IN  IF DependsOnFailure(run[1].definition, run[1].outcome, id)
           THEN /\ run' = Some([run[1] EXCEPT !.position = @ + 1,
                                             !.outcome[id] = "skipped"])
                /\ invoked' = invoked
           ELSE /\ invoked' = Append(invoked, id)
                /\ \E verdict \in {"succeeded", "failed"} :
                      run' = Some([run[1] EXCEPT !.position = @ + 1,
                                                !.outcome[id] = verdict])
    /\ UNCHANGED <<convex, clock, result, builder, pipeline, uploadSave, response,
                   returned, error>>

\* the nodes of the run with the given outcome
NodesWith(r, verdict) == {n \in DOMAIN r.outcome : r.outcome[n] = verdict}

\* summary = {totalNodes, successfulNodes, failedNodes, successRate}, the
\* rate in percent
Summary(r) ==
    [total_nodes |-> Len(r.order),
     successful_nodes |-> Cardinality(NodesWith(r, "succeeded")),
     failed_nodes |-> Cardinality(NodesWith(r, "failed")),
     success_rate |-> (100 * Cardinality(NodesWith(r, "succeeded"))) \div Len(r.order)]

\* step 5 with the test turned round: a run is completed when some node
\* succeeded
FinalStatusAnySuccess(r) ==
    IF Summary(r).successful_nodes > 0 THEN "completed" ELSE "failed"

\* step 5: completed if failedNodes == 0, else failed
FinalStatus(r) == IF Summary(r).failed_nodes = 0 THEN "completed" ELSE "failed"

ExecutionResult(r, now) ==
    [execution_id |-> r.execution_id, status |-> FinalStatus(r),
     result |-> r.outcome, summary |-> Summary(r), completed_at |-> now]

\* steps 5 and 6: the record is closed and the result travels back through
\* the route to executeWorkflow
finishRun ==
    /\ IsSome(run)
    /\ run[1].position = Len(run[1].order) + 1
    /\ executions' = [executions EXCEPT ![run[1].execution_id] =
            [@ EXCEPT !.status = FinalStatus(run[1]),
                      !.output_data = Some(run[1].outcome),
                      !.error_message =
                          IF FinalStatus(run[1]) = "failed"
                          THEN Some(NodesWith(run[1], "failed")) ELSE None,
                      !.completed_at = Some(clock)]]
    /\ run' = Some([run[1] EXCEPT !.position = @ + 1])
    /\ LET reply == ExecuteRoutePOST(BackendReply(200, ExecutionResult(run[1], clock)))
       IN  /\ response' = Some(reply)
           /\ returned' = executeWorkflow(reply)
           /\ error' = executeWorkflowError(reply)
    /\ UNCHANGED <<workflows, wfIssued, exIssued, documents, docIssued, clock,
                   result, builder, pipeline, uploadSave, invoked>>

\* the definitions the engine is given
EngineDefinitions == {GraphChain3, GraphFork, GraphCycle, GraphLoop, GraphDangling}

StoreDefinition ==
    \E c \in Identities, g \in EngineDefinitions :
        WorkflowsCreate(c, "a", None, g, None) /\ UNCHANGED front

ExecuteRequest ==
    \E id \in WorkflowIds : execute(id) /\ exIssued' <= MaxExecutions

ValidateRequest ==
    \E g \in EngineDefinitions, backendOk \in BOOLEAN : ValidateRoutePOST(g, backendOk)

NextEngine ==
    \/ StoreDefinition
    \/ ExecuteRequest
    \/ beginRun
    \/ stepNode
    \/ finishRun
    \/ ValidateRequest

SpecEngine == Init /\ [][NextEngine]_vars

----------------------------------------------------------------------------
(* cleanProcessingResult on JSON-like values. A value carries its type in  *)
(* t: null, undefined, a number, a string, an array of items or an object  *)
(* of properties by key.                                                   *)

JNull == [t |-> "null"]

JUndefined == [t |-> "undefined"]

JArray(elements) == [t |-> "array", items |-> elements]

JObject(properties) == [t |-> "object", props |-> properties]

JNumber == [t |-> "number", num |-> 1]

JString == [t |-> "string", str |-> "s"]

Scalars == {JNull, JUndefined, JNumber, JString}

Keys == {"a", "b"}

\* data === null || data === undefined
IsNullish(data) == data.t \in {"null", "undefined"}

\* the values of exactly `size` nodes (a scalar, an array, an object and
\* each element or property value count one node)
RECURSIVE Sized(_)
RECURSIVE Lists(_)
\* the element lists whose values have `size` nodes together
Lists(size) ==
    IF size = 0 THEN {<<>>}
    ELSE UNION {{<<x>> \o rest : x \in Sized(k), rest \in Lists(size - k)} :
                   k \in 1..size}

Sized(size) ==
    IF size = 1 THEN Scalars \cup {JArray(<<>>), JObject(<<>>)}
    ELSE {JArray(l) : l \in Lists(size - 1)}
         \cup {JObject([k \in {key} |-> x]) : key \in Keys, x \in Sized(size - 1)}
         \cup UNION {{JObject([k \in Keys |-> IF k = "a" THEN x ELSE y]) :
                         x \in Sized(n), y \in Sized(size - 1 - n)} :
                        n \in 1..(size - 2)}

\* the values handed to cleanProcessingResult
JsonValues == UNION {Sized(n) : n \in 1..MaxSize}

\* cleanProcessingResult without the filter on the mapped array
RECURSIVE cleanProcessingResultNoFilter(_)
cleanProcessingResultNoFilter(data) ==
    IF IsNullish(data) THEN JUndefined
    ELSE IF data.t = "array"
    THEN JArray([i \in 1..Len(data.items) |-> cleanProcessingResultNoFilter(data.items[i])])
    ELSE IF data.t = "object"
    THEN JObject([k \in {key \in DOMAIN data.props :
                            ~IsNullish(cleanProcessingResultNoFilter(data.props[key]))}
                     |-> cleanProcessingResultNoFilter(data.props[k])])
    ELSE data

\* cleanProcessingResult (the same function in both routes)
RECURSIVE cleanProcessingResult(_)
cleanProcessingResult(data) ==
    IF IsNullish(data) THEN JUndefined
    ELSE IF data.t = "array"
    THEN JArray(SelectSeq([i \in 1..Len(data.items) |-> cleanProcessingResult(data.items[i])],
                          LAMBDA item : item # JUndefined))
    ELSE IF data.t = "object"
    THEN JObject([k \in {key \in DOMAIN data.props :
                            ~IsNullish(cleanProcessingResult(data.props[key]))}
                     |-> cleanProcessingResult(data.props[k])])
    ELSE data

\* a value is about to be cleaned
InitClean == InitRest /\ cleanIn \in {Some(data) : data \in JsonValues}

Clean ==
    /\ IsSome(cleanIn)
    /\ cleanOut = None
    /\ cleanOut' = Some(cleanProcessingResult(cleanIn[1]))
    /\ UNCHANGED <<convex, clock, result, builder, uploadSave, response, engine,
                   error, request, job, backendCalls, cleanIn>>

NextClean == Clean

SpecClean == InitClean /\ [][NextClean]_vars

----------------------------------------------------------------------------
(* Document processing: the upload page's handleFileDrop and the routes    *)
(* /api/process/document and /api/process/invoice.                         *)

\* detection confidences in tenths: `confidence > 0.6` on the upload page,
\* `confidence > 0.3` in the document route
ClientThreshold == 6

ServerThreshold == 3

Confidences == {2, 5, 8}

\* the OCR text of a file, as detectDocumentType and the route's keyword
\* test see it
Texts ==
    [type : {"invoice"}, confidence : Confidences, keywords : BOOLEAN]
    \cup [type : {"receipt"}, confidence : {8}, keywords : BOOLEAN]

\* selectedType on the upload page
Modes == {"auto", "invoice", "custom", "receipt"}

\* a POST to a processing route: what auth() and getToken() will give, and
\* what the form data holds
ProcessRequest(endpoint, userId, token, file, extraction_request, text) ==
    [endpoint |-> endpoint, userId |-> userId, token |-> token, file |-> file,
     extraction_request |-> extraction_request, text |-> text]

\* handleFileDrop up to `fetch(endpoint, ...)`; ocrOk is the answer of the
\* page's own OCR call in auto mode
handleFileDrop(selectedType, customExtraction, text, ocrOk, userId, token) ==
    /\ request = None
    /\ request' =
          IF selectedType = "invoice"
          THEN Some(ProcessRequest("invoice", userId, token, TRUE, FALSE, text))
          ELSE IF selectedType = "custom" /\ customExtraction
          THEN Some(ProcessRequest("document", userId, token, TRUE, TRUE, text))
          ELSE IF selectedType = "auto"
          THEN IF ~ocrOk THEN None
               ELSE IF text.type = "invoice" /\ text.confidence > ClientThreshold
               THEN Some(ProcessRequest("invoice", userId, token, TRUE, FALSE, text))
               ELSE Some(ProcessRequest("document", userId, token, TRUE, TRUE, text))
          ELSE Some(ProcessRequest("document", userId, token, TRUE, FALSE, text))
    /\ UNCHANGED <<convex, clock, result, builder, uploadSave, response, engine,
                   error, job, backendCalls, cleanIn, cleanOut>>

\* the checks only for a signed-in caller: a request without a file goes on
RejectionNoFileCheck(req) ==
    IF ~IsSome(req.userId) THEN 401
    ELSE IF ~req.token THEN 401
    ELSE 0

\* the checks before documents.create: the status to answer, or 0 to go on
Rejection(req) ==
    IF ~IsSome(req.userId) THEN 401
    ELSE IF ~req.token THEN 401
    ELSE IF ~req.file THEN 400
    ELSE 0

RejectionMessage(req) ==
    IF ~IsSome(req.userId) THEN "Unauthorized"
    ELSE IF ~req.token THEN "Unable to get authentication token"
    ELSE "No file provided"

RouteName(req) ==
    IF req.endpoint = "invoice" THEN "process/invoice" ELSE "process/document"

\* POST of either route up to `const docId = await convex.mutation(
\* api.documents.create, ...)`
ProcessRouteAccept ==
    /\ IsSome(request)
    /\ IF job = None THEN TRUE ELSE job[1].responded
    /\ request' = None
    /\ IF Rejection(request[1]) # 0
       THEN /\ response' = Some([route |-> RouteName(request[1]),
                                 status |-> Rejection(request[1]),
                                 body |-> [error |-> RejectionMessage(request[1])]])
            /\ UNCHANGED <<convex, clock, result, job>>
       ELSE /\ DocumentsCreate(request[1].userId, "f", 1, "application/pdf",
                               "processing", None, request[1].userId)
            /\ job' = Some([docId |-> docIssued + 1, request |-> request[1],
                            responded |-> FALSE])
            /\ response' = response
    /\ UNCHANGED <<builder, uploadSave, engine, error, backendCalls, cleanIn, cleanOut>>

\* the backend's processing results and error bodies, as JSON values
Entity(attributes, start_char) ==
    JObject([k \in {"extraction_class", "extraction_text", "attributes", "start_char"} |->
               IF k = "attributes" THEN attributes
               ELSE IF k = "start_char" THEN start_char
               ELSE JString])

ResultBody(entity) ==
    JObject([k \in {"ocr_text", "extracted_entities", "extraction_metadata",
                    "processing_stats"} |->
               IF k = "ocr_text" THEN JString
               ELSE IF k = "extracted_entities" THEN JArray(<<entity>>)
               ELSE JObject(<<>>)])

ProcessBodies ==
    {ResultBody(Entity(JObject(<<>>), JNull)),
     ResultBody(Entity(JNull, JNumber)),
     JObject([k \in {"error"} |-> JString]),
     JObject([k \in {"detail"} |-> JString])}

ProcessStatuses == {200, 500}

\* what a fetch of the backend comes to: it throws, or it answers with a
\* status and a body that response.json() can or cannot parse
ProcessOutcomes ==
    {BackendThrew("fetch failed")}
    \cup {BackendReply(st, b) : st \in ProcessStatuses, b \in ProcessBodies}
    \cup {[BackendReply(st, JNull) EXCEPT !.parsable = FALSE] : st \in ProcessStatuses}

\* documents.update's validator for an extracted entity
ValidEntity(value) ==
    /\ value.t = "object"
    /\ DOMAIN value.props \subseteq {"extraction_class", "extraction_text",
                                     "attributes", "start_char", "end_char"}
    /\ {"extraction_class", "extraction_text", "attributes"} \subseteq DOMAIN value.props
    /\ value.props["extraction_class"].t = "string"
    /\ value.props["extraction_text"].t = "string"
    /\ \A k \in {"start_char", "end_char"} \cap DOMAIN value.props :
          value.props[k].t = "number"

\* documents.update's validator for processing_result
ValidProcessingResult(value) ==
    /\ value.t = "object"
    /\ DOMAIN value.props = {"ocr_text", "extracted_entities",
                             "extraction_metadata", "processing_stats"}
    /\ value.props["ocr_text"].t = "string"
    /\ value.props["extracted_entities"].t = "array"
    /\ \A i \in 1..Len(value.props["extracted_entities"].items) :
          ValidEntity(value.props["extracted_entities"].items[i])

\* data.error || fallback
ErrorOr(data, fallback) ==
    IF data.t = "object" /\ "error" \in DOMAIN data.props
          /\ data.props["error"].t = "string"
    THEN data.props["error"].str
    ELSE fallback

\* the server's own detection: `type === 'invoice' && confidence > 0.3`,
\* else the keyword test
ServerSaysInvoice(text) ==
    \/ text.type = "invoice" /\ text.confidence > ServerThreshold
    \/ text.keywords

\* the document route detecting for every request
RouteDetectsAlways(req) == req.endpoint = "document"

\* if (!formData.has('extraction_request')), in the document route only
RouteDetects(req) == req.endpoint = "document" /\ ~req.extraction_request

\* the backend endpoint a request is processed by
BackendEndpoint(req) ==
    IF req.endpoint = "invoice" THEN "process/invoice"
    ELSE IF RouteDetects(req) /\ ServerSaysInvoice(req.text) THEN "process/invoice"
    ELSE "process/document"

\* the message of the failed update when the backend did not answer ok
FailureMessage(req, data) ==
    IF req.endpoint = "invoice" THEN ErrorOr(data, "Invoice processing failed")
    ELSE IF BackendEndpoint(req) = "process/invoice" THEN "Invoice processing failed"
    ELSE ErrorOr(data, "Processing failed")

RouteFailure(req) ==
    IF req.endpoint = "invoice" THEN "Failed to process invoice"
    ELSE "Failed to process document"

Ok(status) == status \in 200..299

BackendCall(endpoint, ok) == [endpoint |-> endpoint, ok |-> ok]

\* the outer catch: 500 with the route's message
Caught(req) ==
    [route |-> RouteName(req), status |-> 500, body |-> [error |-> RouteFailure(req)]]

\* what the route does after documents.create, given the backend's answers:
\* the backend calls made, the one update that takes effect and the
\* response when that update succeeds
Plan(req, ocr, reply) ==
    LET failed(calls, message, answer) ==
            [calls |-> calls, status |-> "failed", processing_result |-> None,
             error_message |-> Some(message), bypass_auth |-> None,
             response |-> answer]
        ocrCalls == IF RouteDetects(req)
                    THEN <<BackendCall("ocr/extract", ocr = "ok")>> ELSE <<>>
        endpoint == BackendEndpoint(req)
        replied == IsSome(reply.thrown) = FALSE
        calls == ocrCalls \o <<BackendCall(endpoint, replied /\ Ok(reply.status))>>
    IN  IF RouteDetects(req) /\ ocr = "threw"
        THEN failed(ocrCalls, "fetch failed", Caught(req))
        ELSE IF RouteDetects(req) /\ ocr = "notOk"
        THEN failed(ocrCalls, "Failed to extract text for document type detection",
                    [route |-> RouteName(req), status |-> 500,
                     body |-> [error |-> "Failed to extract text for document type detection"]])
        ELSE IF ~replied
        THEN failed(calls, reply.thrown[1], Caught(req))
        ELSE IF ~reply.parsable
        THEN failed(calls, "Unexpected token", Caught(req))
        ELSE IF ~Ok(reply.status)
        THEN failed(calls, FailureMessage(req, reply.body),
                    [route |-> RouteName(req), status |-> reply.status,
                     body |-> reply.body])
        ELSE IF ~ValidProcessingResult(cleanProcessingResult(reply.body))
        THEN failed(calls, "ArgumentValidationError", Caught(req))
        ELSE [calls |-> calls, status |-> "processed",
              processing_result |-> Some(cleanProcessingResult(reply.body)),
              error_message |-> None, bypass_auth |-> Some(TRUE),
              response |-> [route |-> RouteName(req), status |-> reply.status,
                            body |-> reply.body]]

OcrOutcomes == {"ok", "notOk", "threw"}

\* POST of either route from the backend calls to the response
ProcessRouteFinish ==
    \E ocr \in OcrOutcomes, reply \in ProcessOutcomes :
        /\ IsSome(job)
        /\ ~job[1].responded
        /\ LET req == job[1].request
               plan == Plan(req, ocr, reply)
           IN  /\ DocumentsUpdate(req.userId, job[1].docId, plan.processing_result,
                                  Some(plan.status), plan.error_message,
                                  plan.bypass_auth)
               /\ response' = Some(IF result'.out = "ok" THEN plan.response
                                   ELSE Caught(req))
               /\ backendCalls' = backendCalls \o plan.calls
        /\ job' = Some([job[1] EXCEPT !.responded = TRUE])
        /\ UNCHANGED <<builder, uploadSave, engine, error, request, cleanIn, cleanOut>>

\* the upload page: a file is dropped (while the store has room for its
\* document)
DropFile ==
    /\ docIssued < MaxDocuments
    /\ \E selectedType \in Modes, customExtraction \in BOOLEAN, text \in Texts,
       ocrOk \in BOOLEAN, userId \in OptUser, token \in BOOLEAN :
          handleFileDrop(selectedType, customExtraction, text, ocrOk, userId, token)

\* any other client of the two routes
PostDirectly ==
    /\ docIssued < MaxDocuments
    /\ request = None
    /\ \E endpoint \in {"document", "invoice"}, userId \in OptUser,
          token \in BOOLEAN, file \in BOOLEAN, extraction \in BOOLEAN, text \in Texts :
          request' = Some(ProcessRequest(endpoint, userId, token, file, extraction, text))
    /\ UNCHANGED <<convex, clock, result, builder, uploadSave, response, engine,
                   error, job, backendCalls, cleanIn, cleanOut>>

NextProcess ==
    \/ DropFile
    \/ PostDirectly
    \/ ProcessRouteAccept
    \/ ProcessRouteFinish
    \/ RemoveDocument

SpecProcess == Init /\ [][NextProcess]_vars

----------------------------------------------------------------------------
(* The two proxies against every outcome of the backend: validateWorkflow  *)
(* on the canvas, executeWorkflow on a saved workflow.                     *)

\* the JSON bodies the backend sends
BackendBodies ==
    {ErrorBody(None, None), ErrorBody(Some("cycle"), None),
     ErrorBody(Some("dangling"), None), ErrorBody(None, Some("busy")),
     [text |-> "plain"], [execution_id |-> 1, status |-> "completed"]}

BackendStatuses == {200, 201, 400, 404, 422, 500}

\* what can happen to the route's request.formData() and fetch
BackendOutcomes ==
    {BackendThrew("Failed to parse body as FormData"), BackendThrew("fetch failed")}
    \cup {BackendReply(st, b) : st \in BackendStatuses, b \in BackendBodies}
    \cup {[BackendReply(st, ErrorBody(None, None)) EXCEPT !.parsable = FALSE] :
              st \in BackendStatuses}

\* executeWorkflow(workflowId, files) through the route, the backend doing
\* `backend`
executeWorkflowCall(backend) ==
    /\ response' = Some(ExecuteRoutePOST(backend))
    /\ returned' = executeWorkflow(ExecuteRoutePOST(backend))
    /\ error' = executeWorkflowError(ExecuteRoutePOST(backend))
    /\ UNCHANGED <<convex, clock, result, builder, uploadSave, run, invoked,
                   pipeline>>

ExecuteCall == \E backend \in BackendOutcomes : executeWorkflowCall(backend)

ValidateClick ==
    \E reachable \in BOOLEAN, backendOk \in BOOLEAN :
        handleValidateWorkflow(reachable, backendOk)

NextProxy ==
    \/ AddNode
    \/ Connect
    \/ ValidateClick
    \/ ExecuteCall

SpecProxy == Init /\ [][NextProxy]_vars

----------------------------------------------------------------------------
(* Properties of the execution store (SpecEx).                             *)

TerminalStatuses == {"completed", "failed"}

\* the lifecycle pending -> running -> {completed, failed}
StatusForward(old, new) ==
    \/ new = old
    \/ old = "pending" /\ new \in {"running", "completed", "failed"}
    \/ old = "running" /\ new \in TerminalStatuses

\* a step that ran a handler (the clock did not tick)
HandlerStep == clock' = clock

\* a step in which createExecution inserted a row
InsertedExecution == exIssued' = exIssued + 1

\* C1: the status of an execution record only moves forward along
\* pending -> running -> {completed, failed}; no call moves it back.
C1_StatusOnlyMovesForward ==
    [][\A id \in DOMAIN executions :
          id \in DOMAIN executions' /\
          StatusForward(executions[id].status, executions'[id].status)]_vars

\* C2: once an execution record is completed or failed, no later call
\* changes any of its fields.
C2_TerminalRecordImmutable ==
    [][\A id \in DOMAIN executions :
          executions[id].status \in TerminalStatuses
              => id \in DOMAIN executions' /\ executions'[id] = executions[id]]_vars

\* C3: output_data is present only on a completed record and error_message
\* only on a failed one.
C3_OutputOnlyWhenCompleted ==
    \A id \in DOMAIN executions :
        /\ IsSome(executions[id].output_data) => executions[id].status = "completed"
        /\ IsSome(executions[id].error_message) => executions[id].status = "failed"

C10_CompletedAtIffTerminal ==
    \A id \in DOMAIN executions :
        IsSome(executions[id].completed_at)
            <=> executions[id].status \in TerminalStatuses

----------------------------------------------------------------------------
(* Access control of workflows.ts (Spec).                                  *)

GuardedWorkflowOps == {"workflows.get", "workflows.update", "workflows.remove"}

GuardedExecutionOps == {"workflows.getExecution", "workflows.updateExecution"}

\* what the rule of C4 demands of a reply to `caller` about a row of `owner`
AccessRule(reply, owner) ==
    /\ ~IsSome(reply.caller) =>
          reply.out = "Not authenticated" /\ UNCHANGED <<workflows, executions>>
    /\ IsSome(reply.caller) /\ IsSome(owner) /\ owner # reply.caller =>
          reply.out = "Access denied" /\ UNCHANGED <<workflows, executions>>
    /\ IsSome(reply.caller) /\ ~IsSome(owner) => reply.out = "ok"

\* C4: get, update, remove, getExecution and updateExecution reject a caller
\* who is not the owner of an owned row with 'Access denied' and change
\* nothing, allow every authenticated caller on an ownerless row, and reject
\* an unauthenticated caller.
C4_OwnerAccessControl ==
    [][HandlerStep =>
          /\ result'.op \in GuardedWorkflowOps /\ result'.id \in DOMAIN workflows
                => AccessRule(result', workflows[result'.id].userId)
          /\ result'.op \in GuardedExecutionOps /\ result'.id \in DOMAIN executions
                => AccessRule(result', executions[result'.id].userId)
          /\ result'.op \in GuardedWorkflowOps \cup GuardedExecutionOps
                /\ ~IsSome(result'.caller)
                => result'.out = "Not authenticated"]_vars

\* another user's update of an owned run was refused
C4_ForeignUpdateDenied ==
    /\ result.op = "workflows.updateExecution"
    /\ result.out = "Access denied"
    /\ result.id \in DOMAIN executions
    /\ IsSome(executions[result.id].userId)
    /\ IsSome(result.caller)
    /\ executions[result.id].userId # result.caller
    /\ executions[result.id].status = "pending"

----------------------------------------------------------------------------
(* Isolation between owners (SpecDoc, SpecWf).                             *)

\* the rows of `store` owned by somebody other than `caller` are the same
\* after the step
ForeignRowsKept(store, storeNext, caller) ==
    \A id \in DOMAIN store :
        IsSome(store[id].userId) /\ store[id].userId # caller
            => id \in DOMAIN storeNext /\ storeNext[id] = store[id]

\* C5: no mutation issued by a caller who is not the owner (another user or
\* an unauthenticated caller, whatever the arguments) modifies or deletes an
\* owned workflow, execution or document.
C5_NoForeignMutation ==
    [][HandlerStep =>
          /\ ForeignRowsKept(workflows, workflows', result'.caller)
          /\ ForeignRowsKept(executions, executions', result'.caller)
          /\ ForeignRowsKept(documents, documents', result'.caller)]_vars

\* every row a listing returned is the caller's own or ownerless
ListedOwn(store) ==
    \A i \in 1..Len(result.ret) :
        LET row == store[result.ret[i]]
        IN  IsSome(row.userId) => row.userId = result.caller

\* C6: workflows.list, documents.list and listExecutions never return a row
\* whose userId is another user's.
C6_ListsOnlyOwnRows ==
    /\ result.op = "workflows.list" => ListedOwn(workflows)
    /\ result.op = "documents.list" => ListedOwn(documents)
    /\ result.op = "workflows.listExecutions" /\ result.out = "ok"
          => ListedOwn(executions)

----------------------------------------------------------------------------
(* Round trip of workflows.update (SpecWf).                                *)

\* a step in which an update went through
UpdatedWorkflow ==
    /\ HandlerStep
    /\ result'.op = "workflows.update"
    /\ result'.out = "ok"

\* the fields update leaves alone when the payload holds only a name
RenameKeeps(old, new) ==
    /\ new.definition = old.definition
    /\ new.description = old.description
    /\ new.is_active = old.is_active
    /\ new.created_at = old.created_at
    /\ new.userId = old.userId

\* what a get by the owner returns is the stored row
GetReturnsRow ==
    HandlerStep /\ result'.op = "workflows.get" /\ result'.out = "ok"
        => result'.ret = Some(workflows'[result'.id])

\* C7 as claimed: update(id, {name: x}) then get(id) returns name x, an
\* updated_at strictly greater than before and everything else as before;
\* update changes only the fields of its payload plus updated_at.
C7_UpdateRoundTripStrict ==
    [][/\ GetReturnsRow
       /\ UpdatedWorkflow =>
             LET id == result'.id
                 c == result'.caller
             IN  workflows[id].userId = c
                     /\ WorkflowsUpdate(c, id, Some("x"), None, None, None) =>
                     /\ workflows'[id].name = "x"
                     /\ workflows'[id].updated_at > workflows[id].updated_at
                     /\ RenameKeeps(workflows[id], workflows'[id])]_vars

\* C7 amended: update(id, {name: x}) then get(id) returns name x, an
\* updated_at equal to the time of the update call, which is greater than or
\* equal to the value before (equal when no clock tick lies between), and
\* everything else as before; update changes only the fields of its payload
\* plus updated_at.
C7_UpdateRoundTrip ==
    [][/\ GetReturnsRow
       /\ UpdatedWorkflow =>
             \A n \in {None, Some("x")}, d \in WfDescriptions,
                g \in {None, Some(GraphSingle)}, f \in {None, Some(FALSE)} :
                 WorkflowsUpdate(result'.caller, result'.id, n, d, g, f) =>
                     LET old == workflows[result'.id]
                         new == workflows'[result'.id]
                     IN  /\ new.name = IF IsSome(n) THEN n[1] ELSE old.name
                         /\ new.description = IF IsSome(d) THEN d ELSE old.description
                         /\ new.definition = IF IsSome(g) THEN g[1] ELSE old.definition
                         /\ new.is_active = IF IsSome(f) THEN f[1] ELSE old.is_active
                         /\ new.created_at = old.created_at
                         /\ new.userId = old.userId
                         /\ new.updated_at = clock
                         /\ new.updated_at >= old.updated_at]_vars

\* the owner reads back a renamed workflow that kept its description and
\* whose updated_at did not move
C7_ReadBackRenamed ==
    /\ result.op = "workflows.get"
    /\ result.out = "ok"
    /\ result.ret[1].userId = result.caller
    /\ result.ret[1].name = "x"
    /\ result.ret[1].description = Some("d")
    /\ result.ret[1].definition = GraphChain
    /\ result.ret[1].updated_at = result.ret[1].created_at

----------------------------------------------------------------------------
(* Lifecycle of documents (SpecDoc).                                       *)

TerminalDocumentStatuses == {"processed", "failed"}

\* C8: a document that is processed or failed is not changed by any later
\* update; only deletion touches it.
C8_TerminalDocumentImmutable ==
    [][\A id \in DOMAIN documents :
          documents[id].status \in TerminalDocumentStatuses
              /\ id \in DOMAIN documents'
              => documents'[id] = documents[id]]_vars

----------------------------------------------------------------------------
(* Ownership and independence of runs (Spec, SpecPair).                    *)

\* C13 as claimed: the record createExecution inserts has the userId of the
\* workflow it refers to, also when that workflow has no owner.
C13_RunOwnedAsWorkflow ==
    [][InsertedExecution =>
          LET row == executions'[exIssued']
          IN  row.userId = workflows[row.workflow_id].userId]_vars

\* C13 amended: the record createExecution inserts has the caller's userId;
\* that is the userId of the workflow it refers to whenever the workflow
\* has an owner, and a run of an ownerless workflow belongs to the caller
\* who started it.
C13_RunOwnedByCaller ==
    [][InsertedExecution =>
          LET row == executions'[exIssued']
              owner == workflows[row.workflow_id].userId
          IN  /\ IsSome(row.userId)
              /\ row.userId = result'.caller
              /\ IsSome(owner) => row.userId = owner]_vars

\* a user has started a run of an ownerless workflow
C13_RunOfOwnerlessWorkflow ==
    /\ result.op = "workflows.createExecution"
    /\ result.out = "ok"
    /\ executions[result.id].workflow_id \in DOMAIN workflows
    /\ workflows[executions[result.id].workflow_id].userId = None
    /\ executions[result.id].userId = result.caller

\* the execution records other than `id` are the same after the step
OtherRunsKept(id) ==
    \A i \in DOMAIN executions \ {id} :
        i \in DOMAIN executions' /\ executions'[i] = executions[i]

\* C14: each successful createExecution inserts exactly one record under an
\* id no record had before; createExecution and updateExecution change no
\* execution record other than the one created or addressed and no
\* workflow, however two runs of one workflow interleave.
C14_RunsIndependent ==
    [][/\ result'.op = "workflows.createExecution" =>
             /\ workflows' = workflows
             /\ OtherRunsKept(0)
             /\ IF result'.out = "ok"
                THEN /\ result'.id \notin 1..exIssued
                     /\ DOMAIN executions' = DOMAIN executions \cup {result'.id}
                ELSE executions' = executions
       /\ result'.op = "workflows.updateExecution" =>
             /\ workflows' = workflows
             /\ DOMAIN executions' = DOMAIN executions
             /\ OtherRunsKept(result'.id)]_vars

\* two runs of one workflow, the second updated before the first finished
C14_TwoRunsInterleaved ==
    /\ result.op = "workflows.updateExecution"
    /\ result.out = "ok"
    /\ result.id = 1
    /\ 2 \in DOMAIN executions
    /\ executions[1].workflow_id = executions[2].workflow_id
    /\ executions[1].status = "completed"
    /\ executions[2].status = "running"

----------------------------------------------------------------------------
(* The edge invariant of stored definitions (SpecDef).                     *)

\* every edge of the definition joins two of its nodes
EdgesJoinNodes(definition) ==
    \A e \in definition.edges :
        e[1] \in NodeIds(definition) /\ e[2] \in NodeIds(definition)

\* C15: after any sequence of create and update calls, each edge of every
\* stored definition has a source and a target among that definition's
\* nodes.
C15_StoredEdgesJoinNodes ==
    \A id \in DOMAIN workflows : EdgesJoinNodes(workflows[id].definition)

----------------------------------------------------------------------------
(* What the pages hand to the store, and when the builder runs a workflow  *)
(* (SpecBuilder, SpecCanvas).                                              *)

\* no node of the definition carries the onConfigUpdate callback
NoCallback(definition) ==
    \A i \in 1..Len(definition.nodes) : ~definition.nodes[i].onConfigUpdate

\* C11: every definition the builder's Save or the upload page's Create
\* Workflow passes to the create / update mutation has no onConfigUpdate
\* callback in any node's data.
C11_NoCallbackSaved ==
    /\ IsSome(pendingSave) => NoCallback(pendingSave[1].definition)
    /\ IsSome(uploadSave) => NoCallback(uploadSave[1])

\* C16: after any sequence of addNode operations, also two of one type in
\* one millisecond and also after loading a saved workflow, the nodes on
\* the canvas have pairwise distinct ids.
C16_CanvasIdsDistinct ==
    \A i \in 1..Len(nodes), j \in 1..Len(nodes) :
        i # j => nodes[i].id # nodes[j].id

\* a step in which the page sends an execute request
ExecuteRequestSent == IsSome(pendingRun') /\ pendingRun' # pendingRun

\* C12 as claimed: an execute request is sent only when the current
\* workflow has a persisted id, the id the request carries; a workflow never
\* saved, or reset by New or by deleting the current workflow, is not run.
C12_RunOnlyCurrentSaved ==
    [][ExecuteRequestSent =>
          /\ IsSome(currentWorkflow)
          /\ currentWorkflow[1].id = pendingRun']_vars

----------------------------------------------------------------------------
(* The document route's statuses (SpecRoute).                              *)

\* C17: GET and DELETE /api/documents/{id} by a signed-in user answer a
\* missing document with 404 and a document of another owner with 403,
\* and never answer with 500.
C17_RejectionsSurfaced ==
    [][\A u \in Users, id \in DocumentIds :
          DocumentRouteGET(Some(u), TRUE, id) \/ DocumentRouteDELETE(Some(u), TRUE, id)
              => /\ id \notin DOMAIN documents => response'[1].status = 404
                 /\ id \in DOMAIN documents /\ OwnedByOther(documents[id].userId, u)
                       => response'[1].status = 403
                 /\ response'[1].status # 500]_vars

----------------------------------------------------------------------------
(* Validation and execution of a definition (SpecEngine).                  *)

\* the nodes with a path along the edges into one of `ids`
RECURSIVE Ancestors(_, _)
Ancestors(definition, ids) ==
    LET more == ids \cup {e[1] : e \in {x \in definition.edges : x[2] \in ids}}
    IN  IF more = ids
        THEN {e[1] : e \in {x \in definition.edges : x[2] \in ids}}
        ELSE Ancestors(definition, more)

\* the nodes the input of `id` depends on
Upstream(definition, id) ==
    {e[1] : e \in {x \in definition.edges : x[2] = id}}
    \cup Ancestors(definition, {e[1] : e \in {x \in definition.edges : x[2] = id}})

\* some node lies on a path back to itself
HasCycle(definition) ==
    \E n \in NodeIds(definition) : n \in Upstream(definition, n)

\* how often the executor of the node was invoked
Calls(id) == Cardinality({k \in 1..Len(invoked) : invoked[k] = id})

\* the run has processed every node and returned
Finished(r) == r.position = Len(r.order) + 2

\* C18: when a node's executor fails the run goes on; every node whose
\* input depends on a failed node, directly or through other nodes, is
\* skipped and its executor never invoked, and every other node is executed.
\* For the chain A -> B -> C with B failing the summary counts one
\* successful and one failed node and C's executor saw no call.
C18_PartialFailure ==
    IsSome(run) =>
        LET r == run[1]
            failedAbove(n) ==
                \E q \in Upstream(r.definition, n) : r.outcome[q] = "failed"
        IN  /\ \A n \in DOMAIN r.outcome :
                  /\ r.outcome[n] = "skipped" => failedAbove(n) /\ Calls(n) = 0
                  /\ r.outcome[n] = "waiting" => Calls(n) = 0
                  /\ r.outcome[n] \in {"succeeded", "failed"}
                        => ~failedAbove(n) /\ Calls(n) = 1
            /\ Finished(r) =>
                  /\ \A n \in DOMAIN r.outcome :
                        r.outcome[n] = IF failedAbove(n) THEN "skipped"
                                       ELSE IF Calls(n) = 1 /\ r.outcome[n] = "failed"
                                       THEN "failed" ELSE "succeeded"
                  /\ r.definition = GraphChain3
                     /\ r.outcome[NodeId("ocr-processor", -1)] = "failed"
                        => /\ returned[1].summary.successful_nodes = 1
                           /\ returned[1].summary.failed_nodes = 1
                           /\ Calls(NodeId("export-data", -1)) = 0

\* the chain A -> B -> C has run with B failing
C18_ChainWithFailedMiddle ==
    /\ IsSome(run)
    /\ Finished(run[1])
    /\ run[1].definition = GraphChain3
    /\ run[1].outcome[NodeId("document-input", -1)] = "succeeded"
    /\ run[1].outcome[NodeId("ocr-processor", -1)] = "failed"
    /\ run[1].outcome[NodeId("export-data", -1)] = "skipped"
    /\ invoked = <<NodeId("document-input", -1), NodeId("ocr-processor", -1)>>

\* C19: for every definition with a cycle among its edges, validate reports
\* is_valid = false with a CyclicGraph error, and execute is rejected before
\* an execution record is created or a node executor invoked.
C19_CycleRejected ==
    [][/\ \A g \in EngineDefinitions :
             HasCycle(g) /\ ValidateRoutePOST(g, TRUE)
                 => /\ ~response'[1].body.is_valid
                    /\ "CyclicGraph" \in response'[1].body.errors
       /\ \A id \in DOMAIN workflows :
             HasCycle(workflows[id].definition) /\ execute(id)
                 => /\ response'[1].status = 422
                    /\ "CyclicGraph" \in response'[1].body.error
                    /\ returned' = None
                    /\ run' = None
                    /\ executions' = executions
                    /\ invoked' = invoked
       /\ IsSome(run') => ~HasCycle(run'[1].definition)]_vars

\* execute was refused for a stored definition with a cycle
C19_CyclicExecuteRefused ==
    /\ IsSome(response)
    /\ response[1].route = "execute"
    /\ response[1].status = 422
    /\ "CyclicGraph" \in response[1].body.error
    /\ \E id \in DOMAIN workflows : HasCycle(workflows[id].definition)
    /\ run = None
    /\ invoked = <<>>

----------------------------------------------------------------------------
(* Runs and the workflows they belong to (Spec).                           *)

\* C26 as claimed: every execution record's workflow_id refers to a
\* workflow that is still in the store; removing a workflow leaves no
\* execution pointing at it.
C26_RunsReferToWorkflows ==
    \A id \in DOMAIN executions : executions[id].workflow_id \in DOMAIN workflows

----------------------------------------------------------------------------
(* Saves in flight and the loading flag (SpecBuilder).                     *)

\* the first save of a workflow without an id comes back
FirstSaveSettles ==
    /\ IsSome(pendingSave)
    /\ pendingSave' = None
    /\ ~IsSome(pendingSave[1].closure.id)

\* C27 as claimed: when the first save of a new workflow completes, the
\* builder's current workflow still shows what the user did while the save
\* was awaited (name, description, the workflow loaded or started); it is
\* not overwritten by the snapshot taken before the save.
C27_SaveKeepsLaterEdits ==
    [][FirstSaveSettles /\ IsSome(currentWorkflow)
          => /\ IsSome(currentWorkflow')
             /\ currentWorkflow'[1].name = currentWorkflow[1].name
             /\ currentWorkflow'[1].description = currentWorkflow[1].description
             /\ IsSome(currentWorkflow[1].id)
                    => currentWorkflow'[1].id = currentWorkflow[1].id]_vars

\* saveWorkflow, deleteWorkflow or executeWorkflow has started and not
\* finished
InFlight == IsSome(pendingSave) \/ IsSome(pendingDelete) \/ IsSome(pendingRun)

\* C28 as claimed: loading is true whenever one of saveWorkflow,
\* deleteWorkflow and executeWorkflow is in flight, and false once all of
\* them have finished.
C28_LoadingTracksInFlight == loading <=> InFlight

----------------------------------------------------------------------------
(* The proxies' answers (SpecProxy).                                       *)

\* the backend answered with this status
Answered(backend, statuses) ==
    ~IsSome(backend.thrown) /\ backend.status \in statuses

\* the backend's body parses and carries a detail
HasDetail(backend) ==
    /\ backend.parsable
    /\ "detail" \in DOMAIN backend.body
    /\ IsSome(backend.body.detail)

\* C21: the execute route answers every request with one response whose
\* status follows the backend's outcome: 2xx gives 200 with the backend's
\* JSON body unchanged, 404 gives 404 'Workflow not found', 422 gives 422
\* with the backend's validation detail, and every other failure or thrown
\* error gives 500.
C21_ExecuteRouteStatuses ==
    [][\A backend \in BackendOutcomes :
          executeWorkflowCall(backend) =>
              /\ IsSome(response')
              /\ response'[1].status =
                    IF Answered(backend, 200..299) /\ backend.parsable THEN 200
                    ELSE IF Answered(backend, {404}) THEN 404
                    ELSE IF Answered(backend, {422}) THEN 422
                    ELSE 500
              /\ Answered(backend, 200..299) /\ backend.parsable
                    => response'[1].body = backend.body
              /\ Answered(backend, {404})
                    => response'[1].body = [error |-> "Workflow not found"]
              /\ Answered(backend, {422}) /\ HasDetail(backend)
                    => response'[1].body = [error |-> backend.body.detail[1]]]_vars

\* a validation rejection went through the route with its detail
C21_RejectionPassedOn ==
    /\ IsSome(response)
    /\ response[1].route = "execute"
    /\ response[1].status = 422
    /\ response[1].body = [error |-> "cycle"]

\* the five fields of a validation report
ReportFields == {"is_valid", "errors", "warnings", "node_count", "edge_count"}

\* C22: validateWorkflow always resolves to a validation report; when the
\* request fails (no reply, or a reply that is not 2xx) the report is
\* is_valid = false with exactly one error, no warnings and the counts of
\* the submitted nodes and edges; the submitted definition is not modified.
C22_ValidateAlwaysReports ==
    [][\A reachable \in BOOLEAN, backendOk \in BOOLEAN :
          handleValidateWorkflow(reachable, backendOk) =>
              /\ IsSome(returned')
              /\ DOMAIN returned'[1] = ReportFields
              /\ ~(reachable /\ backendOk) =>
                    /\ ~returned'[1].is_valid
                    /\ Cardinality(returned'[1].errors) = 1
                    /\ returned'[1].warnings = {}
                    /\ returned'[1].node_count = Len(nodes)
                    /\ returned'[1].edge_count = Cardinality(edges)
              /\ nodes' = nodes
              /\ edges' = edges]_vars

\* the fallback report for a canvas of two nodes and an edge
C22_FallbackReported ==
    /\ IsSome(returned)
    /\ DOMAIN returned[1] = ReportFields
    /\ returned[1].errors = {"Failed to validate workflow"}
    /\ returned[1].node_count = 2
    /\ returned[1].edge_count = 1
    /\ Len(nodes) = 2
    /\ Cardinality(edges) = 1

\* C29 as claimed: when the backend rejects an execute request with 422 and
\* a detail message, the error state executeWorkflow sets holds that detail
\* message, and executeWorkflow returns null.
C29_RejectionDetailShown ==
    [][\A backend \in BackendOutcomes :
          Answered(backend, {422}) /\ HasDetail(backend)
          /\ executeWorkflowCall(backend)
              => /\ error' = Some(backend.body.detail[1])
                 /\ returned' = None]_vars

----------------------------------------------------------------------------
(* cleanProcessingResult (SpecClean).                                      *)

\* no null and no undefined at any depth
RECURSIVE NoNullish(_)
NoNullish(data) ==
    /\ ~IsNullish(data)
    /\ data.t = "array" => \A i \in 1..Len(data.items) : NoNullish(data.items[i])
    /\ data.t = "object" => \A k \in DOMAIN data.props : NoNullish(data.props[k])

RECURSIVE Flatten(_)
Flatten(lists) ==
    IF lists = <<>> THEN <<>> ELSE Head(lists) \o Flatten(Tail(lists))

\* the numbers and strings of a value, each with its path: a position for
\* an element (counted among the elements that are not null), a key for a
\* property
RECURSIVE Leaves(_)
Leaves(data) ==
    IF IsNullish(data) THEN {}
    ELSE IF data.t = "array"
    THEN LET kept == SelectSeq(data.items, LAMBDA item : ~IsNullish(item))
         IN  UNION {{[pos |-> i, key |-> "", leaf |-> leaf] : leaf \in Leaves(kept[i])} :
                       i \in 1..Len(kept)}
    ELSE IF data.t = "object"
    THEN UNION {{[pos |-> 0, key |-> k, leaf |-> leaf] : leaf \in Leaves(data.props[k])} :
                   k \in DOMAIN data.props}
    ELSE {data}

\* how many arrays and objects a value holds
RECURSIVE Containers(_)
RECURSIVE ContainersOf(_)
ContainersOf(items) ==
    IF items = <<>> THEN 0
    ELSE Containers(Head(items)) + ContainersOf(Tail(items))

Containers(data) ==
    IF data.t = "array" THEN 1 + ContainersOf(data.items)
    ELSE IF data.t = "object"
    THEN 1 + (IF "a" \in DOMAIN data.props THEN Containers(data.props["a"]) ELSE 0)
           + (IF "b" \in DOMAIN data.props THEN Containers(data.props["b"]) ELSE 0)
    ELSE 0

\* C30: cleanProcessingResult removes exactly the null and undefined
\* values: the output of cleaning an array, an object or a scalar that is
\* not null holds no null or undefined at any depth, every number and
\* string stays where it was, no array or object is lost, and cleaning the
\* output again changes nothing. (null or undefined itself is cleaned to
\* undefined, the absent value.)
C30_CleanRemovesNullish ==
    IsSome(cleanOut) =>
        LET data == cleanIn[1]
            out == cleanOut[1]
        IN  /\ IsNullish(data) => out = JUndefined
            /\ ~IsNullish(data) =>
                  /\ NoNullish(out)
                  /\ out.t = data.t
                  /\ Leaves(out) = Leaves(data)
                  /\ Containers(out) = Containers(data)
            /\ cleanProcessingResult(out) = out

\* an object whose array held a null and a number has been cleaned
C30_NestedNullRemoved ==
    /\ IsSome(cleanOut)
    /\ cleanIn = Some(JObject([k \in {"a"} |->
                        JArray(<<JNull, JNumber>>)]))
    /\ cleanOut = Some(JObject([k \in {"a"} |-> JArray(<<JNumber>>)]))


\* C25: a request that either processing route rejects (caller not signed
\* in: 401; no Convex token: 401; no file in the form data: 400) is
\* answered with that status, and the step creates or changes no document
\* and calls no backend endpoint.
C25_RejectedLeavesNoRecord ==
    [][(IsSome(request) /\ request' = None) =>
          LET req == request[1]
              expected == IF ~IsSome(req.userId) THEN 401
                          ELSE IF ~req.token THEN 401
                          ELSE IF ~req.file THEN 400
                          ELSE 0
          IN  expected # 0 =>
                 /\ response' # None
                 /\ response'[1].route = RouteName(req)
                 /\ response'[1].status = expected
                 /\ documents' = documents
                 /\ docIssued' = docIssued
                 /\ backendCalls' = backendCalls
                 /\ job' = job]_vars

\* a signed-in caller's request without a file was answered 400 by the
\* invoice route and the store is still empty
C25_NoFileRejected ==
    /\ response # None
    /\ response[1].route = "process/invoice"
    /\ response[1].status = 400
    /\ documents = <<>>
    /\ docIssued = 0
    /\ backendCalls = <<>>


\* the backend calls a step of a route has made
NewCalls == SubSeq(backendCalls', Len(backendCalls) + 1, Len(backendCalls'))

RouteResponds == IsSome(job) /\ ~job[1].responded /\ job' # None /\ job'[1].responded

\* C24: in auto-detect mode the page posts to the document endpoint exactly
\* when the detection is not an invoice with confidence above 0.6, and then
\* with an extraction_request; the route sends a request carrying an
\* extraction_request to the backend's process/document endpoint only,
\* whatever the detection, and calls ocr/extract for its own detection only
\* for requests without an extraction_request.
C24_PageRoutingIsFinal ==
    [][/\ (request = None /\ request' # None) =>
              \A text \in Texts, customExtraction \in BOOLEAN, userId \in OptUser,
                 token \in BOOLEAN :
                  handleFileDrop("auto", customExtraction, text, TRUE, userId, token) =>
                     /\ request'[1].endpoint = "document"
                           <=> ~(text.type = "invoice" /\ text.confidence > 6)
                     /\ request'[1].endpoint = "document" => request'[1].extraction_request
       /\ RouteResponds =>
              LET req == job[1].request
              IN  /\ (req.endpoint = "document" /\ req.extraction_request) =>
                         \A i \in 1..Len(NewCalls) :
                             NewCalls[i].endpoint = "process/document"
                  /\ (\E i \in 1..Len(NewCalls) : NewCalls[i].endpoint = "ocr/extract") =>
                         ~req.extraction_request]_vars

\* a file detected as an invoice with confidence 0.5, posted with an
\* extraction_request, was processed by the backend's process/document
\* endpoint alone
C24_LowConfidenceInvoiceStaysGeneral ==
    /\ job # None
    /\ job[1].responded
    /\ job[1].request.endpoint = "document"
    /\ job[1].request.extraction_request
    /\ job[1].request.text.type = "invoice"
    /\ job[1].request.text.confidence = 5
    /\ backendCalls = <<BackendCall("process/document", TRUE)>>
    /\ response # None
    /\ response[1].status = 200


\* the backend's processing call of this step returned ok
ProcessingReturnedOk ==
    \E i \in 1..Len(NewCalls) :
        /\ NewCalls[i].endpoint \in {"process/document", "process/invoice"}
        /\ NewCalls[i].ok

\* C23: when a processing route responds, the record it created is no
\* longer processing: it is processed exactly when the backend's processing
\* call returned ok and failed otherwise, and the response is 2xx only if
\* the record is processed.
C23_RecordFollowsBackend ==
    [][RouteResponds =>
          LET id == job[1].docId
          IN  /\ id \in DOMAIN documents' =>
                    /\ documents'[id].status # "processing"
                    /\ documents'[id].status = "processed" <=> ProcessingReturnedOk
                    /\ documents'[id].status = "failed" <=> ~ProcessingReturnedOk
              /\ Ok(response'[1].status) =>
                    /\ id \in DOMAIN documents'
                    /\ documents'[id].status = "processed"]_vars

====
